---- MODULE Spec2Model ----
(***************************************************************************)
(* A model of ahatconfig-go (config.go): the schema-driven merge of a TOML *)
(* file and the process environment into a typed configuration record.     *)
(*                                                                         *)
(* Go strings are sequences of one-character strings, so that the upper-   *)
(* casing, splitting, trimming and number parsing of the code are computed *)
(* and not assumed.  A struct value is the tuple of its field values in    *)
(* declaration order, as reflect's v.Field(i) sees it.                     *)
(***************************************************************************)
EXTENDS Integers, Sequences, FiniteSets, TLC

VARIABLES
    env,         \* the process environment: variable name -> value
    files,       \* directory -> state of <AppName>.toml in that directory
    started,     \* the program has begun calling the library
    AppName,     \* config.go:20
    configPath,  \* config.go:21
    instance,    \* config.go:18, the process-wide singleton
    cfg,         \* LoadConfig's local record (config.go:145) at its return
    tomlErr,     \* LoadConfig's local tomlErr (config.go:148), logged only
    envErr,      \* LoadConfig's local envErr (config.go:156), logged only
    ret,         \* outcome of the last entry-point call
    err,         \* the error the last entry-point call returned
    lastFile,    \* the file state the last load resolved and read
    once,        \* config.go:19, sync.Once: its function has been run
    call,        \* the last operation: its kind and whether it ran a load
    got,         \* what the last GetConfig / GetConfigSafe gave its caller
    masked,      \* the snapshot the last PrintConfig printed
    typeCacheMap, \* config.go:42, sync.Map: type -> the TypeInfo stored
    caller,      \* the goroutines inside getCachedTypeInfo: where each is
    computed,    \* the TypeInfo instances built so far, per type
    input,       \* the arguments of a call of parseEnvValue
    output,      \* what that call returned
    racers       \* the goroutines inside InitConfig / InitConfigWithPath

\* the state of the entry points beside the loader's
apiVars == <<once, call, got, masked>>
\* the state of the schema cache
cacheVars == <<typeCacheMap, caller, computed>>

\* the state of a call of the converter
parseVars == <<input, output>>

\* the state of the concurrent guarded initializers
raceVars == <<racers>>

vars == <<env, files, started, AppName, configPath, instance, cfg,
          tomlErr, envErr, ret, err, lastFile, once, call, got, masked,
          typeCacheMap, caller, computed, input, output, racers>>

-----------------------------------------------------------------------------
(* Bounds of the model.                                                    *)

\* at most this many environment variables are set for a run, besides
\* those the process inherits
MaxEnvVars == 2
\* the goroutines that call getCachedTypeInfo at the same time
MaxCallers == 3
\* the goroutines that call a guarded initializer at the same time
MaxRacers == 2
\* the length of the raw strings handed to the converter
MaxRawLen == 4
\* the index probe of loadStructSliceEnv is cut off (and reported as not
\* terminating) when it passes this index; no variable addresses an index
\* that high
ProbeLimit == 4

-----------------------------------------------------------------------------
(* strings, strconv                                                        *)

LowerCase == <<"a","b","c","d","e","f","g","h","i","j","k","l","m","n","o","p","q","r","s","t","u","v","w","x","y","z">>
UpperCase == <<"A","B","C","D","E","F","G","H","I","J","K","L","M","N","O","P","Q","R","S","T","U","V","W","X","Y","Z">>
DigitChars == <<"0","1","2","3","4","5","6","7","8","9">>

IndexIn(c, s) == IF \E i \in 1..Len(s) : s[i] = c
                 THEN CHOOSE i \in 1..Len(s) : s[i] = c
                 ELSE 0

\* unicode.ToUpper and unicode.ToLower on the letters
Letters == {LowerCase[i] : i \in 1..26} \cup {UpperCase[i] : i \in 1..26}
UpperOf == [c \in Letters |-> IF IndexIn(c, LowerCase) > 0
                              THEN UpperCase[IndexIn(c, LowerCase)] ELSE c]
LowerOf == [c \in Letters |-> IF IndexIn(c, UpperCase) > 0
                              THEN LowerCase[IndexIn(c, UpperCase)] ELSE c]

ToUpperChar(c) == IF c \in Letters THEN UpperOf[c] ELSE c
ToLowerChar(c) == IF c \in Letters THEN LowerOf[c] ELSE c

\* strings.ToUpper, strings.ToLower
ToUpper(s) == [i \in 1..Len(s) |-> ToUpperChar(s[i])]
ToLower(s) == [i \in 1..Len(s) |-> ToLowerChar(s[i])]

\* strings.ReplaceAll(s, "-", "_")
HyphenToUnderscore(s) == [i \in 1..Len(s) |-> IF s[i] = "-" THEN "_" ELSE s[i]]

IsSpace(c) == c \in {" ", "\t", "\n", "\r"}

RECURSIVE TrimLeft(_)
TrimLeft(s) == IF s # <<>> /\ IsSpace(Head(s)) THEN TrimLeft(Tail(s)) ELSE s

RECURSIVE TrimRight(_)
TrimRight(s) == IF s # <<>> /\ IsSpace(s[Len(s)])
                THEN TrimRight(SubSeq(s, 1, Len(s) - 1))
                ELSE s

\* the string as it is, with its surrounding whitespace
NoTrim(s) == s

\* strings.TrimSpace
TrimSpace(s) == TrimRight(TrimLeft(s))

\* strings.Split(s, ","): the pieces between the commas, empty ones included
RECURSIVE SplitFrom(_, _, _)
SplitFrom(s, i, piece) ==
    IF i > Len(s) THEN <<piece>>
    ELSE IF s[i] = "," THEN <<piece>> \o SplitFrom(s, i + 1, <<>>)
    ELSE SplitFrom(s, i + 1, Append(piece, s[i]))

Split(s) == SplitFrom(s, 1, <<>>)

DigitOf == [c \in {DigitChars[i] : i \in 1..10} |-> IndexIn(c, DigitChars) - 1]

IsDigit(c) == c \in DOMAIN DigitOf
DigitVal(c) == DigitOf[c]

RECURSIVE DigitsVal(_, _)
DigitsVal(s, acc) == IF s = <<>> THEN acc
                     ELSE DigitsVal(Tail(s), 10 * acc + DigitVal(Head(s)))

AllDigits(s) == s # <<>> /\ \A i \in 1..Len(s) : IsDigit(s[i])

\* fmt's %d of a non-negative int
RECURSIVE Itoa(_)
Itoa(n) == IF n < 10 THEN <<DigitChars[n + 1]>>
           ELSE Itoa(n \div 10) \o <<DigitChars[(n % 10) + 1]>>

\* strconv.Atoi: an optional sign, then decimal digits (values within the int range)
Atoi(s) ==
    LET signed == s # <<>> /\ Head(s) \in {"+", "-"}
        digits == IF signed THEN Tail(s) ELSE s
    IN  IF AllDigits(digits)
        THEN [ok |-> TRUE,
              val |-> IF signed /\ Head(s) = "-" THEN 0 - DigitsVal(digits, 0)
                      ELSE DigitsVal(digits, 0)]
        ELSE [ok |-> FALSE, val |-> 0]

\* strconv.ParseBool accepts exactly these spellings
BoolTrue == {<<"1">>, <<"t">>, <<"T">>, <<"T","R","U","E">>, <<"t","r","u","e">>, <<"T","r","u","e">>}
BoolFalse == {<<"0">>, <<"f">>, <<"F">>, <<"F","A","L","S","E">>, <<"f","a","l","s","e">>, <<"F","a","l","s","e">>}

ParseBool(s) ==
    IF s \in BoolTrue THEN [ok |-> TRUE, val |-> TRUE]
    ELSE IF s \in BoolFalse THEN [ok |-> TRUE, val |-> FALSE]
    ELSE [ok |-> FALSE, val |-> FALSE]

\* A float is kept exactly, as m / 10^e with m not a multiple of 10 unless e = 0.
RECURSIVE NormFloat(_, _)
NormFloat(m, e) == IF e > 0 /\ m % 10 = 0 THEN NormFloat(m \div 10, e - 1)
                   ELSE [m |-> m, e |-> e]

\* strconv.ParseFloat on plain decimal literals: sign, digits, at most one
\* point, at least one digit (exponents, hex floats, inf and nan are not in
\* the alphabet of the inputs)
ParseFloat(s) ==
    LET signed == s # <<>> /\ Head(s) \in {"+", "-"}
        body == IF signed THEN Tail(s) ELSE s
        dot == IndexIn(".", body)
        ip == IF dot = 0 THEN body ELSE SubSeq(body, 1, dot - 1)
        fp == IF dot = 0 THEN <<>> ELSE SubSeq(body, dot + 1, Len(body))
        wellFormed == /\ ip \o fp # <<>>
                      /\ \A i \in 1..Len(ip) : IsDigit(ip[i])
                      /\ \A i \in 1..Len(fp) : IsDigit(fp[i])
        mag == DigitsVal(ip \o fp, 0)
    IN  IF wellFormed
        THEN [ok |-> TRUE,
              val |-> NormFloat(IF signed /\ Head(s) = "-" THEN 0 - mag ELSE mag, Len(fp))]
        ELSE [ok |-> FALSE, val |-> [m |-> 0, e |-> 0]]

-----------------------------------------------------------------------------
(* The record types the library is instantiated with.  A declaration is   *)
(* what reflect reports for a struct field: its name, its kind (for a     *)
(* slice the element kind, for a struct or a slice of structs the struct  *)
(* type) and its raw tags.                                                 *)

Decl(name, kind, elem, struct, e, d, r, s) ==
    [Name |-> name, Kind |-> kind, Elem |-> elem, Struct |-> struct,
     envTag |-> e, defaultTag |-> d, requiredTag |-> r, secretTag |-> s]

NoTag == <<>>
True == <<"t","r","u","e">>

\* The configuration type of the tests and examples (sections Server and
\* Database, a list of Users, feature flags), with a section nested two deep.
TypeNames == {"AppConfig", "Database", "User", "Opt", "Outer", "Inner",
              "SvcConfig", "Service", "Settings"}

StructDeclTable ==
  [t \in TypeNames |->
    CASE t = "AppConfig" ->
         << Decl(<<"H","o","s","t">>, "string", "", "", <<"H","O","S","T">>, NoTag, True, NoTag),
            Decl(<<"P","o","r","t">>, "int", "", "", <<"P","O","R","T">>, <<"8","0">>, NoTag, NoTag),
            Decl(<<"E","n","a","b","l","e","d">>, "bool", "", "", <<"E","N","A","B","L","E","D">>, <<"t","r","u","e">>, NoTag, NoTag),
            Decl(<<"H","o","s","t","s">>, "slice", "string", "", <<"H","O","S","T","S">>, NoTag, NoTag, NoTag),
            Decl(<<"D","a","t","a","b","a","s","e">>, "struct", "", "Database", <<"D","A","T","A","B","A","S","E">>, NoTag, NoTag, NoTag),
            Decl(<<"U","s","e","r","s">>, "slice", "struct", "User", <<"U","S","E","R","S">>, NoTag, NoTag, NoTag),
            Decl(<<"O","u","t","e","r">>, "struct", "", "Outer", NoTag, NoTag, NoTag, NoTag) >>
      [] t = "Database" ->
         << Decl(<<"U","s","e","r">>, "string", "", "", <<"U","S","E","R">>, NoTag, True, NoTag),
            Decl(<<"P","a","s","s","w","o","r","d">>, "string", "", "", <<"P","A","S","S","W","O","R","D">>, NoTag, NoTag, True),
            Decl(<<"T","l","s">>, "bool", "", "", <<"T","L","S">>, NoTag, True, NoTag) >>
      [] t = "User" ->
         << Decl(<<"R","o","l","e">>, "string", "", "", <<"R","O","L","E">>, <<"u","s","e","r">>, True, NoTag),
            Decl(<<"N","a","m","e">>, "string", "", "", <<"N","A","M","E">>, NoTag, True, NoTag),
            Decl(<<"O","p","t">>, "struct", "", "Opt", <<"O","P","T">>, NoTag, NoTag, NoTag) >>
      [] t = "Opt" ->
         << Decl(<<"T","i","m","e","o","u","t">>, "int", "", "", <<"T","I","M","E","O","U","T">>, <<"3","0">>, NoTag, NoTag) >>
      [] t = "Outer" ->
         << Decl(<<"I","n","n","e","r">>, "struct", "", "Inner", NoTag, NoTag, NoTag, NoTag) >>
      [] t = "Inner" ->
         << Decl(<<"L","e","v","e","l">>, "int", "", "", NoTag, <<"3">>, NoTag, NoTag) >>
      \* a second configuration type: a list of services with nested
      \* settings, secrets of several kinds, a 64-bit counter, a hyphenated tag
      [] t = "SvcConfig" ->
         << Decl(<<"S","e","r","v","i","c","e","s">>, "slice", "struct", "Service", <<"S","E","R","V","I","C","E","S">>, NoTag, NoTag, NoTag),
            Decl(<<"T","o","k","e","n","s">>, "slice", "string", "", <<"T","O","K","E","N","S">>, NoTag, NoTag, True),
            Decl(<<"A","p","i","K","e","y">>, "string", "", "", <<"A","P","I","_","K","E","Y">>, NoTag, NoTag, True),
            Decl(<<"R","e","t","r","i","e","s">>, "int64", "", "", <<"R","E","T","R","I","E","S">>, NoTag, NoTag, NoTag),
            Decl(<<"L","o","g","F","i","l","e">>, "string", "", "", <<"l","o","g","-","f","i","l","e">>, NoTag, NoTag, NoTag) >>
      [] t = "Service" ->
         << Decl(<<"N","a","m","e">>, "string", "", "", <<"N","A","M","E">>, NoTag, NoTag, NoTag),
            Decl(<<"K","e","y">>, "string", "", "", <<"K","E","Y">>, NoTag, NoTag, True),
            Decl(<<"M","o","d","e">>, "string", "", "", <<"M","O","D","E">>, <<"s","t","d">>, True, NoTag),
            Decl(<<"S","e","t","t","i","n","g","s">>, "struct", "", "Settings", <<"S","E","T","T","I","N","G","S">>, NoTag, NoTag, NoTag) >>
      [] t = "Settings" ->
         << Decl(<<"T","i","m","e","o","u","t">>, "int", "", "", <<"T","I","M","E","O","U","T">>, <<"3","0">>, NoTag, NoTag),
            Decl(<<"D","e","b","u","g">>, "bool", "", "", <<"D","E","B","U","G">>, <<"t","r","u","e">>, NoTag, NoTag) >> ]

\* t.NumField() and t.Field(i)
StructDecls(t) == StructDeclTable[t]
NumField(t) == Len(StructDecls(t))

\* What getCachedTypeInfo computes for a struct type: the FieldInfo list.
FieldInfoOf(f) ==
    [Name |-> f.Name, Kind |-> f.Kind, Elem |-> f.Elem, Struct |-> f.Struct,
     EnvTag |-> f.envTag,
     DefaultValue |-> f.defaultTag,
     Required |-> ToLower(f.requiredTag) = True,
     Secret |-> ToLower(f.secretTag) = True]

\* typeCache once filled: the cache only memoizes the computation, so every
\* caller of getCachedTypeInfo reads a list of the same content (which
\* instance a concurrent caller gets is the matter of SpecCache).
typeCache ==
    [t \in TypeNames |->
        [Fields |-> [i \in 1..NumField(t) |-> FieldInfoOf(StructDecls(t)[i])]]]

getCachedTypeInfo(t) == typeCache[t]

IntKinds == {"int", "int64", "int32", "int16", "int8"}
FloatKinds == {"float64", "float32"}

IsStructSlice(f) == f.Kind = "slice" /\ f.Elem = "struct"

FloatZero == [m |-> 0, e |-> 0]

\* the zero value of a scalar or slice kind
ZeroOfKind(kind) ==
    CASE kind = "string" -> <<>>
      [] kind \in IntKinds -> 0
      [] kind = "bool" -> FALSE
      [] kind \in FloatKinds -> FloatZero
      [] OTHER -> <<>>

\* new(T): every field at its zero value, a nil slice being the empty sequence
RECURSIVE ZeroStruct(_)
ZeroStruct(t) ==
    [i \in 1..NumField(t) |->
        LET f == StructDecls(t)[i]
        IN  IF f.Kind = "struct" THEN ZeroStruct(f.Struct) ELSE ZeroOfKind(f.Kind)]

\* isZero: bool and struct kinds fall to the default branch
isZero(kind, v) ==
    CASE kind = "string" -> Len(v) = 0
      [] kind \in IntKinds -> v = 0
      [] kind \in FloatKinds -> v.m = 0
      [] kind \in {"slice", "array", "map"} -> Len(v) = 0
      [] OTHER -> FALSE

\* getZeroValue
getZeroValue(kind) == ZeroOfKind(kind)

\* The Go type of what parseEnvValue returns for a target kind: strconv.Atoi
\* gives an int and strconv.ParseFloat a float64 whatever the target's width.
ParsedGoKind(kind) ==
    CASE kind \in IntKinds -> "int"
      [] kind \in FloatKinds -> "float64"
      [] OTHER -> kind

\* reflect's Set and Append panic when the value's type is not the target's
Assignable(kind) == ParsedGoKind(kind) = kind

\* Errors.  what: "nil", "parse" (field, offending raw string), "required"
\* (display name), "unsupported", "decode".
Err(what, field, raw) == [what |-> what, field |-> field, raw |-> raw]
Nil == Err("nil", <<>>, <<>>)

\* The result of a parse: the value, an error, or a panic of reflect.
Parsed(v) == [st |-> "ok", val |-> v, raw |-> <<>>]
ParseFail(st, raw) == [st |-> st, val |-> <<>>, raw |-> raw]

\* parseEnvValue for a scalar target
parseScalar(envValue, kind) ==
    IF envValue = <<>> THEN Parsed(getZeroValue(kind))
    ELSE CASE kind = "string" -> Parsed(envValue)
           [] kind \in IntKinds ->
                IF Atoi(envValue).ok THEN Parsed(Atoi(envValue).val)
                ELSE ParseFail("err", envValue)
           [] kind = "bool" ->
                IF ParseBool(envValue).ok THEN Parsed(ParseBool(envValue).val)
                ELSE ParseFail("err", envValue)
           [] kind \in FloatKinds ->
                IF ParseFloat(envValue).ok THEN Parsed(ParseFloat(envValue).val)
                ELSE ParseFail("err", envValue)
           [] OTHER -> ParseFail("unsupported", envValue)

\* parseSliceValue: the loop over the pieces, from piece i on
RECURSIVE parseSliceFrom(_, _, _, _)
parseSliceFrom(strs, elemKind, i, sliceVal) ==
    IF i > Len(strs) THEN Parsed(sliceVal)
    ELSE LET s == TrimSpace(strs[i])
         IN  IF s = <<>> THEN parseSliceFrom(strs, elemKind, i + 1, sliceVal)
             ELSE LET p == parseScalar(s, elemKind)
                  IN  IF p.st # "ok" THEN ParseFail(p.st, p.raw)
                      ELSE IF ~Assignable(elemKind) THEN ParseFail("panic", s)
                      ELSE parseSliceFrom(strs, elemKind, i + 1, Append(sliceVal, p.val))

parseSliceValue(envValue, elemKind) == parseSliceFrom(Split(envValue), elemKind, 1, <<>>)

\* parseEnvValue
parseEnvValue(envValue, kind, elemKind) ==
    IF envValue = <<>> THEN Parsed(getZeroValue(kind))
    ELSE IF kind = "slice" THEN parseSliceValue(envValue, elemKind)
    ELSE parseScalar(envValue, kind)

\* os.Getenv: an unset variable reads as the empty string
Getenv(e, key) == IF key \in DOMAIN e THEN e[key] ELSE <<>>

Underscore == <<"_">>

\* envKeyBase of loadStructEnv and hasStructEnvValues
EnvKeyBase(prefix, fieldInfo) ==
    LET normalizedPrefix == HyphenToUnderscore(ToUpper(prefix))
    IN  IF fieldInfo.EnvTag = <<>>
        THEN normalizedPrefix \o Underscore \o ToUpper(fieldInfo.Name)
        ELSE normalizedPrefix \o Underscore \o ToUpper(fieldInfo.EnvTag)

\* the tag of a slice element's field: its env tag, else its name
ElemTag(f) == IF f.envTag = <<>> THEN f.Name ELSE f.envTag

\* the key with the elements counted from one
ElemEnvKeyOneBased(normalizedPrefix, i, tag) ==
    normalizedPrefix \o Underscore \o Itoa(i + 1) \o Underscore \o ToUpper(tag)

\* envKey of loadStructSliceEnv: "%s_%d_%s"
ElemEnvKey(normalizedPrefix, i, tag) ==
    normalizedPrefix \o Underscore \o Itoa(i) \o Underscore \o ToUpper(tag)

-----------------------------------------------------------------------------
(* The environment pass.                                                   *)

\* The outcome of a loader: the value as far as it was written, and how
\* the loader ended: "ok", "err" (with the error), "panic" (reflect), or
\* "hang" (the index probe passed ProbeLimit).
Res(v, st, e) == [v |-> v, st |-> st, err |-> e]

ParseErr(p, name) ==
    Err(IF p.st = "unsupported" THEN "unsupported" ELSE "parse", name, p.raw)

\* a test of the key's presence in place of the test for a non-empty value
EnvPresent(e, key) == key \in DOMAIN e

\* os.Getenv(key) != "": what counts as a variable seen in the environment
EnvSeen(e, key) == Getenv(e, key) # <<>>

\* hasStructDefaultValues: some field of the struct itself declares a default
hasStructDefaultValues(t) ==
    \E i \in 1..NumField(t) : getCachedTypeInfo(t).Fields[i].DefaultValue # <<>>

RECURSIVE hasStructEnvValues(_, _, _)
RECURSIVE hasStructSliceEnvValues(_, _, _)

\* hasStructEnvValues: some scalar field below the struct has a non-empty
\* variable, or some slice of structs below it has one at index 0
hasStructEnvValues(t, prefix, e) ==
    \E i \in 1..NumField(t) :
        LET fieldInfo == getCachedTypeInfo(t).Fields[i]
            envKeyBase == EnvKeyBase(prefix, fieldInfo)
        IN  IF IsStructSlice(fieldInfo)
            THEN hasStructSliceEnvValues(envKeyBase, fieldInfo.Struct, e)
            ELSE IF fieldInfo.Kind = "struct"
            THEN hasStructEnvValues(fieldInfo.Struct, envKeyBase, e)
            ELSE EnvSeen(e, envKeyBase)

\* hasStructSliceEnvValues: only index 0 is looked at
hasStructSliceEnvValues(prefix, t, e) ==
    LET normalizedPrefix == HyphenToUnderscore(ToUpper(prefix))
        envKey == normalizedPrefix \o <<"_","0","_">>
    IN  \E j \in 1..NumField(t) :
            LET field == StructDecls(t)[j]
                fieldEnvKey == envKey \o ToUpper(ElemTag(field))
            IN  \/ EnvSeen(e, fieldEnvKey)
                \/ /\ field.Kind = "struct"
                   /\ hasStructEnvValues(field.Struct, fieldEnvKey, e)

\* loadStructEnv's test for taking the declared default
UseDefault(envValue, fieldInfo, value) ==
    envValue = <<>> /\ fieldInfo.DefaultValue # <<>> /\ isZero(fieldInfo.Kind, value)

\* the raw string loadStructEnv goes on with: the variable, else the default
WithDefault(envValue, fieldInfo, value) ==
    IF UseDefault(envValue, fieldInfo, value) THEN fieldInfo.DefaultValue ELSE envValue

\* loadStructSliceEnv's test for taking the declared default
UseElemDefault(envVal, field) == envVal = <<>> /\ field.defaultTag # <<>>

WithElemDefault(envVal, field) ==
    IF UseElemDefault(envVal, field) THEN field.defaultTag ELSE envVal

\* loadStructEnv's test for descending into a nested struct
VisitStruct(envValue, fieldInfo, envKeyBase, e) ==
    \/ envValue # <<>>
    \/ hasStructEnvValues(fieldInfo.Struct, envKeyBase, e)
    \/ hasStructDefaultValues(fieldInfo.Struct)

\* loadStructEnv replaces the slice only when the environment built elements
StoreSlice(v, i, s) ==
    IF s.st # "ok" THEN Res(v, s.st, s.err)
    ELSE IF Len(s.v) > 0 THEN Res([v EXCEPT ![i] = s.v], "ok", Nil)
    ELSE Res(v, "ok", Nil)

\* a nested struct is written in place, so what the recursion wrote before
\* it failed stays written
StoreStruct(v, i, r) == Res([v EXCEPT ![i] = r.v], r.st, r.err)

\* value.Set(reflect.ValueOf(parsed)), or the wrapped parse error
StoreParsed(v, i, name, kind, p) ==
    IF p.st = "panic" THEN Res(v, "panic", Nil)
    ELSE IF p.st # "ok" THEN Res(v, "err", ParseErr(p, name))
    ELSE IF ~Assignable(kind) THEN Res(v, "panic", Nil)
    ELSE Res([v EXCEPT ![i] = p.val], "ok", Nil)

\* the field is set only from a non-empty variable or default
SetScalar(v, i, fieldInfo, envValue) ==
    IF envValue = <<>> THEN Res(v, "ok", Nil)
    ELSE StoreParsed(v, i, fieldInfo.Name, fieldInfo.Kind,
                     parseEnvValue(envValue, fieldInfo.Kind, fieldInfo.Elem))

RECURSIVE loadStructEnvFrom(_, _, _, _, _)
RECURSIVE loadStructSliceEnvFrom(_, _, _, _, _)
RECURSIVE loadElemFrom(_, _, _, _, _, _)

\* loadStructSliceEnv
loadStructSliceEnv(prefix, t, e) ==
    loadStructSliceEnvFrom(HyphenToUnderscore(ToUpper(prefix)), t, e, 0, <<>>)

\* loadStructEnv
loadStructEnv(v, t, parentPrefix, e) == loadStructEnvFrom(v, t, parentPrefix, e, 1)

\* one turn of loadStructEnv's field loop
loadFieldAt(v, i, fieldInfo, envKeyBase, e) ==
    IF IsStructSlice(fieldInfo)
    THEN StoreSlice(v, i, loadStructSliceEnv(envKeyBase, fieldInfo.Struct, e))
    ELSE IF fieldInfo.Kind = "struct"
    THEN IF VisitStruct(Getenv(e, envKeyBase), fieldInfo, envKeyBase, e)
         THEN StoreStruct(v, i, loadStructEnv(v[i], fieldInfo.Struct, envKeyBase, e))
         ELSE Res(v, "ok", Nil)
    ELSE SetScalar(v, i, fieldInfo, WithDefault(Getenv(e, envKeyBase), fieldInfo, v[i]))

loadField(v, t, parentPrefix, e, i) ==
    loadFieldAt(v, i, getCachedTypeInfo(t).Fields[i],
                EnvKeyBase(parentPrefix, getCachedTypeInfo(t).Fields[i]), e)

\* an error or panic ends the loop, else it goes on with field i
FieldsFrom(r, t, parentPrefix, e, i) ==
    IF r.st # "ok" THEN r ELSE loadStructEnvFrom(r.v, t, parentPrefix, e, i)

\* the field loop of loadStructEnv, from field i on
loadStructEnvFrom(v, t, parentPrefix, e, i) ==
    IF i > NumField(t) THEN Res(v, "ok", Nil)
    ELSE FieldsFrom(loadField(v, t, parentPrefix, e, i), t, parentPrefix, e, i + 1)

\* The state of loadStructSliceEnv within one element: the element, the
\* flag hasAnyEnvValue, and how the loop ended.
ElemRes(elem, hasAny, st, e) == [v |-> elem, hasAny |-> hasAny, st |-> st, err |-> e]

IsRequired(field) == ToLower(field.requiredTag) = True

StoreElemStruct(x, j, r, seen) ==
    IF r.st # "ok" THEN ElemRes(x.v, x.hasAny, r.st, r.err)
    ELSE ElemRes([x.v EXCEPT ![j] = r.v], x.hasAny \/ seen, "ok", Nil)

StoreElemParsed(x, j, name, kind, p, hasAny) ==
    IF p.st = "panic" THEN ElemRes(x.v, hasAny, "panic", Nil)
    ELSE IF p.st # "ok" THEN ElemRes(x.v, hasAny, "err", ParseErr(p, name))
    ELSE IF ~Assignable(kind) THEN ElemRes(x.v, hasAny, "panic", Nil)
    ELSE ElemRes([x.v EXCEPT ![j] = p.val], hasAny, "ok", Nil)

\* a scalar field of an element: envVal is the variable or else the
\* default, hasAny the flag after this field's own variable was counted
SetElemScalar(x, j, field, envVal, hasAny) ==
    IF envVal = <<>> /\ IsRequired(field) /\ hasAny
    THEN ElemRes(x.v, hasAny, "err", Err("required", ElemTag(field), <<>>))
    ELSE IF envVal # <<>> \/ ~isZero(field.Kind, x.v[j])
    THEN StoreElemParsed(x, j, field.Name, field.Kind,
                         parseEnvValue(envVal, field.Kind, field.Elem), hasAny)
    ELSE ElemRes(x.v, hasAny, "ok", Nil)

\* one turn of loadStructSliceEnv's field loop
loadElemFieldAt(x, j, field, envKey, e) ==
    IF field.Kind = "struct"
    THEN StoreElemStruct(x, j, loadStructEnv(x.v[j], field.Struct, envKey, e),
                         hasStructEnvValues(field.Struct, envKey, e))
    ELSE SetElemScalar(x, j, field, WithElemDefault(Getenv(e, envKey), field),
                       x.hasAny \/ EnvSeen(e, envKey))

loadElemField(normalizedPrefix, t, e, i, j, x) ==
    loadElemFieldAt(x, j, StructDecls(t)[j],
                    ElemEnvKey(normalizedPrefix, i, ElemTag(StructDecls(t)[j])), e)

\* the field loop of loadStructSliceEnv for the element at index i, from
\* field j on
loadElemFrom(normalizedPrefix, t, e, i, j, x) ==
    IF j > NumField(t) \/ x.st # "ok" THEN x
    ELSE loadElemFrom(normalizedPrefix, t, e, i, j + 1,
                      loadElemField(normalizedPrefix, t, e, i, j, x))

\* the probe ends at the first index without a variable
ProbeEnds(x) == ~x.hasAny

\* after the element at index i: fail, stop, or append and go on
ElemsFrom(x, normalizedPrefix, t, e, i, result) ==
    IF x.st # "ok" THEN Res(<<>>, x.st, x.err)
    ELSE IF ProbeEnds(x) THEN Res(result, "ok", Nil)
    ELSE loadStructSliceEnvFrom(normalizedPrefix, t, e, i + 1, Append(result, x.v))

\* the index loop of loadStructSliceEnv, from index i on
loadStructSliceEnvFrom(normalizedPrefix, t, e, i, result) ==
    IF i > ProbeLimit THEN Res(<<>>, "hang", Nil)
    ELSE ElemsFrom(loadElemFrom(normalizedPrefix, t, e, i, 1,
                                ElemRes(ZeroStruct(t), FALSE, "ok", Nil)),
                   normalizedPrefix, t, e, i, result)

\* loadConfigEnv
loadConfigEnv(c, t, app, e) == loadStructEnv(c, t, app, e)

-----------------------------------------------------------------------------
(* The validator.                                                          *)

RECURSIVE checkRequiredFrom(_, _, _)
RECURSIVE checkElemsFrom(_, _, _)

\* checkRequiredField
checkRequiredField(v, t) == checkRequiredFrom(v, t, 1)

\* the first error ends the walk
OrElse(found, rest) == IF found # Nil THEN found ELSE rest

\* the loop over the elements of a slice of structs, from element j on
checkElemsFrom(s, t, j) ==
    IF j > Len(s) THEN Nil
    ELSE OrElse(checkRequiredField(s[j], t), checkElemsFrom(s, t, j + 1))

\* the display name of a field in the validator's error
DisplayName(fieldInfo) ==
    IF fieldInfo.EnvTag = <<>> THEN fieldInfo.Name ELSE fieldInfo.EnvTag

\* one turn of checkRequiredField's loop
checkField(value, fieldInfo) ==
    IF fieldInfo.Kind = "struct" THEN checkRequiredField(value, fieldInfo.Struct)
    ELSE IF IsStructSlice(fieldInfo) THEN checkElemsFrom(value, fieldInfo.Struct, 1)
    ELSE IF fieldInfo.Required /\ isZero(fieldInfo.Kind, value)
    THEN Err("required", DisplayName(fieldInfo), <<>>)
    ELSE Nil

\* the field loop of checkRequiredField, from field i on
checkRequiredFrom(v, t, i) ==
    IF i > NumField(t) THEN Nil
    ELSE OrElse(checkField(v[i], getCachedTypeInfo(t).Fields[i]),
                checkRequiredFrom(v, t, i + 1))

-----------------------------------------------------------------------------
(* The file pass.  The TOML decoder is a collaborator: a readable file is *)
(* the tree it decodes to, in which a key is present (with its value) or  *)
(* absent; a file that does not parse or does not fit the record is        *)
(* "corrupt".                                                              *)

Present(v) == [set |-> TRUE, val |-> v]
Missing(kind) == [set |-> FALSE, val |-> ZeroOfKind(kind)]

FileAbsent == [kind |-> "absent", tree |-> <<>>]
FileCorrupt == [kind |-> "corrupt", tree |-> <<>>]
TomlFile(tree) == [kind |-> "toml", tree |-> tree]

\* tree.Unmarshal(cfg): every key present in the tree is written to its field
RECURSIVE Unmarshal(_, _, _)
Unmarshal(tree, t, c) ==
    [i \in 1..NumField(t) |->
        LET f == StructDecls(t)[i]
        IN  IF f.Kind = "struct" THEN Unmarshal(tree[i], f.Struct, c[i])
            ELSE IF ~tree[i].set THEN c[i]
            ELSE IF IsStructSlice(f)
            THEN [k \in 1..Len(tree[i].val) |->
                     Unmarshal(tree[i].val[k], f.Struct, ZeroStruct(f.Struct))]
            ELSE tree[i].val]

\* Paths are sequences of path elements; filepath.Dir drops the last one.
Dir(path) == SubSeq(path, 1, Len(path) - 1)

\* os.Getwd() and os.Executable()
WorkDir == <<"srv", "run">>
ExePath == <<"opt", "bin", "app">>
\* a base path a caller passes: the path of a file next to the TOML file
CustomPath == <<"etc", "app", "app.exe">>

Dirs == {WorkDir, Dir(ExePath), Dir(CustomPath)}

\* os.Stat / toml.LoadFile of <AppName>.toml in a directory
FileIn(fs, d) == IF d \in DOMAIN fs THEN fs[d] ELSE FileAbsent

\* a loadConfigFile that goes back to the default search when the directory
\* of the base path holds no file
TomlDirFallback(fs, cp) ==
    IF cp # <<>> /\ FileIn(fs, Dir(cp)).kind # "absent"
    THEN Dir(cp)
    ELSE IF FileIn(fs, WorkDir).kind = "absent" THEN Dir(ExePath) ELSE WorkDir

\* the directory loadConfigFile settles on
TomlDir(fs, cp) ==
    IF cp = <<>>
    THEN IF FileIn(fs, WorkDir).kind = "absent" THEN Dir(ExePath) ELSE WorkDir
    ELSE Dir(cp)

\* loadConfigFile as it was before the file became optional: a missing file
\* is reported by toml.LoadFile
loadConfigFileStrict(c, t, fs, cp) ==
    LET f == FileIn(fs, TomlDir(fs, cp))
    IN  IF f.kind = "toml"
        THEN [cfg |-> Unmarshal(f.tree, t, c), err |-> Nil, file |-> f]
        ELSE [cfg |-> c, err |-> Err("decode", <<>>, <<>>), file |-> f]

\* loadConfigFile: the record after the file pass, the error, the file read
loadConfigFile(c, t, fs, cp) ==
    LET f == FileIn(fs, TomlDir(fs, cp))
    IN  IF f.kind = "absent" THEN [cfg |-> c, err |-> Nil, file |-> f]
        ELSE IF f.kind = "corrupt"
        THEN [cfg |-> c, err |-> Err("decode", <<>>, <<>>), file |-> f]
        ELSE [cfg |-> Unmarshal(f.tree, t, c), err |-> Nil, file |-> f]

\* LoadConfig: file pass, environment pass (both errors only logged), then
\* validation; st is "ok", "error", "panic" or "hang"
\* what LoadConfig leaves: the record, the two logged errors, the outcome
LoadResult(fl, ev, chk) ==
    [cfg |-> ev.v,
     tomlErr |-> fl.err,
     envErr |-> IF ev.st = "err" THEN ev.err ELSE Nil,
     st |-> IF ev.st \in {"panic", "hang"} THEN ev.st
            ELSE IF chk # Nil THEN "error" ELSE "ok",
     err |-> IF ev.st \in {"panic", "hang"} THEN Nil ELSE chk,
     file |-> fl.file]

\* LoadConfig after the environment pass: the validation
LoadValidated(fl, ev, t) == LoadResult(fl, ev, checkRequiredField(ev.v, t))

\* an environment pass of all or nothing: after an error the record is the
\* one the file pass left
LoadOverFileAtomic(fl, t, app, e) ==
    LoadValidated(fl, IF loadConfigEnv(fl.cfg, t, app, e).st = "err"
                      THEN Res(fl.cfg, "err", loadConfigEnv(fl.cfg, t, app, e).err)
                      ELSE loadConfigEnv(fl.cfg, t, app, e), t)

\* LoadConfig after the file pass: the environment pass on the same record
LoadOverFile(fl, t, app, e) ==
    LoadValidated(fl, loadConfigEnv(fl.cfg, t, app, e), t)

LoadConfig(t, app, cp, fs, e) ==
    LoadOverFile(loadConfigFile(ZeroStruct(t), t, fs, cp), t, app, e)

-----------------------------------------------------------------------------
(* The inputs: what the environment and the directories may hold.         *)

AppNames == {<<"a","p","p">>}
ConfigTypes == {"AppConfig"}
\* the paths a caller passes: none (the empty string) or CustomPath
ConfigPaths == {<<>>, CustomPath}

\* The environment of a deployment that fills the required fields.
BaseEnv ==
    [k \in {<<"A","P","P","_","H","O","S","T">>, <<"A","P","P","_","D","A","T","A","B","A","S","E","_","U","S","E","R">>, <<"A","P","P","_","D","A","T","A","B","A","S","E","_","T","L","S">>} |->
        IF k = <<"A","P","P","_","H","O","S","T">> THEN <<"b","h">>
        ELSE IF k = <<"A","P","P","_","D","A","T","A","B","A","S","E","_","U","S","E","R">> THEN <<"b","u">>
        ELSE <<"t","r","u","e">>]

\* an environment that sets nothing
NoEnv == [k \in {} |-> <<>>]

\* what the process inherits before anything is set for the run
InitialEnvs == {NoEnv, BaseEnv}

\* the variables set for the run, those inherited aside
SetForRun(e) == IF DOMAIN BaseEnv \subseteq DOMAIN e
                THEN DOMAIN e \ DOMAIN BaseEnv ELSE DOMAIN e

\* variable name, value
EnvChoices ==
    { <<<<"A","P","P","_","H","O","S","T">>, <<"e","h">>>>,
      <<<<"A","P","P","_","P","O","R","T">>, <<"9","0">>>>,
      <<<<"A","P","P","_","P","O","R","T">>, <<"a","b","c">>>>,
      <<<<"A","P","P","_","E","N","A","B","L","E","D">>, <<"F","a","l","s","e">>>>,
      <<<<"A","P","P","_","H","O","S","T","S">>, <<"a",","," ",",","b">>>>,
      <<<<"A","P","P","_","D","A","T","A","B","A","S","E","_","U","S","E","R">>, <<"e","u">>>>,
      <<<<"A","P","P","_","U","S","E","R","S","_","0","_","N","A","M","E">>, <<"n","0">>>>,
      <<<<"A","P","P","_","U","S","E","R","S","_","1","_","N","A","M","E">>, <<"n","1">>>>,
      <<<<"A","P","P","_","U","S","E","R","S","_","2","_","N","A","M","E">>, <<"n","2">>>>,
      <<<<"A","P","P","_","U","S","E","R","S","_","0","_","R","O","L","E">>, <<"r","0">>>>,
      <<<<"A","P","P","_","U","S","E","R","S","_","0","_","O","P","T","_","T","I","M","E","O","U","T">>, <<"7">>>>,
      <<<<"A","P","P","_","U","S","E","R","S","_","0","_","O","P","T","_","T","I","M","E","O","U","T">>, <<"z","z">>>>,
      <<<<"A","P","P","_","O","U","T","E","R","_","I","N","N","E","R","_","L","E","V","E","L">>, <<"5">>>>,
      <<<<"A","P","P","_","C","O","N","F","I","G","_","T","Y","P","E">>, <<"e","n","v">>>>,
      <<<<"A","P","P","_","C","O","N","F","I","G","_","T","Y","P","E">>, <<"t","o","m","l">>>> }

\* a file that sets every key to a non-zero value
TreeFull ==
    << Present(<<"f","h">>), Present(70), Present(TRUE), Present(<<<<"x">>, <<"y">>>>),
       << Present(<<"f","u">>), Present(<<"f","p">>), Present(TRUE) >>,
       Present(<< << Present(<<"a","d","m","i","n">>), Present(<<"f","a">>), << Present(6) >> >>,
                  << Present(<<"g","u","e","s","t">>), Present(<<"f","b">>), << Present(6) >> >> >>),
       << << Present(4) >> >> >>

\* a file that sets keys to zero values
TreeZeros ==
    << Present(<<"f","h">>), Present(0), Present(FALSE), Present(<<>>),
       << Present(<<"f","u">>), Present(<<>>), Present(FALSE) >>,
       Present(<<>>),
       << << Present(0) >> >> >>

\* a file that leaves keys out, the required host among them
TreePartial ==
    << Missing("string"), Present(70), Missing("bool"), Missing("slice"),
       << Present(<<"f","u">>), Missing("string"), Missing("bool") >>,
       Present(<< << Missing("string"), Present(<<"f","a">>), << Missing("int") >> >> >>),
       << << Missing("int") >> >> >>

FileChoices == {FileCorrupt, TomlFile(TreeFull), TomlFile(TreeZeros), TomlFile(TreePartial)}

NoFiles == [d \in Dirs |-> FileAbsent]

\* What the directories hold when the program starts: one configuration
\* file in one of them, or two files of which the search meets one first.
FileLayouts ==
    { [NoFiles EXCEPT ![WorkDir] = f] : f \in FileChoices }
    \cup { [NoFiles EXCEPT ![Dir(ExePath)] = TomlFile(TreeFull)],
           [NoFiles EXCEPT ![Dir(CustomPath)] = TomlFile(TreeFull)],
           [NoFiles EXCEPT ![Dir(CustomPath)] = FileCorrupt],
           [NoFiles EXCEPT ![WorkDir] = TomlFile(TreeFull), ![Dir(ExePath)] = TomlFile(TreeZeros)],
           [NoFiles EXCEPT ![Dir(ExePath)] = TomlFile(TreePartial), ![Dir(CustomPath)] = FileCorrupt] }

-----------------------------------------------------------------------------
(* The state machine.                                                      *)

NoInstance == [set |-> FALSE, type |-> "", rec |-> <<>>]

\* The last operation: "none", "safe" (InitConfigSafe, InitConfigWithPathSafe),
\* "guarded" (InitConfig, InitConfigWithPath), "env", "get" (GetConfig),
\* "getsafe" (GetConfigSafe) or "print"; its type argument; whether it ran
\* LoadConfig; and whether a load inside once.Do had succeeded before it.
Call(op, t, loaded, won) == [op |-> op, type |-> t, loaded |-> loaded, won |-> won]
NoCall == Call("none", "", FALSE, FALSE)

\* a load inside once.Do has succeeded, the last call included
GateWon == call.won \/ (call.op = "guarded" /\ call.loaded /\ ret = "ok")

SafeCall(t) == Call("safe", t, TRUE, GateWon)

\* nothing retrieved, nothing printed
NoGot == [st |-> "none", type |-> "", rec |-> <<>>]
NoSnapshot == [set |-> FALSE, snap |-> <<>>]

\* no call of the converter yet
NoInput == [raw |-> <<>>, kind |-> "", elem |-> ""]
NoOutput == [st |-> "none", val |-> <<>>, raw |-> <<>>]

\* the schema cache at rest: nothing stored, nobody inside
CacheAtRest ==
    /\ typeCacheMap = <<>>
    /\ caller = <<>>
    /\ computed = <<>>

Init ==
    /\ env \in InitialEnvs
    /\ files = NoFiles
    /\ started = FALSE
    /\ AppName = <<>>
    /\ configPath = <<>>
    /\ instance = NoInstance
    /\ cfg = <<>>
    /\ tomlErr = Nil
    /\ envErr = Nil
    /\ ret = "none"
    /\ err = Nil
    /\ lastFile = FileAbsent
    /\ once = FALSE
    /\ call = NoCall
    /\ got = NoGot
    /\ masked = NoSnapshot
    /\ CacheAtRest
    /\ input = NoInput
    /\ output = NoOutput
    /\ racers = <<>>

\* The environment is arranged before the program starts: a variable is set.
Setenv(key, value) ==
    /\ ~started
    /\ key \notin DOMAIN env
    /\ Cardinality(SetForRun(env)) < MaxEnvVars
    /\ env' = [k \in DOMAIN env \cup {key} |-> IF k = key THEN value ELSE env[k]]
    /\ UNCHANGED <<files, started, AppName, configPath, instance, cfg,
                   tomlErr, envErr, ret, err, lastFile>>
    /\ UNCHANGED <<apiVars, cacheVars, parseVars, raceVars>>

\* The configuration files are put in place before the program starts.
WriteFiles(layout) ==
    /\ ~started
    /\ files = NoFiles
    /\ files' = layout
    /\ UNCHANGED <<env, started, AppName, configPath, instance, cfg,
                   tomlErr, envErr, ret, err, lastFile>>
    /\ UNCHANGED <<apiVars, cacheVars, parseVars, raceVars>>

\* a LoadConfig that installs the record it built whatever the outcome
LoadedInstalling(t, l) ==
    /\ cfg' = l.cfg
    /\ tomlErr' = l.tomlErr
    /\ envErr' = l.envErr
    /\ ret' = l.st
    /\ err' = l.err
    /\ lastFile' = l.file
    /\ instance' = [set |-> TRUE, type |-> t, rec |-> l.cfg]

\* what a call of LoadConfig leaves behind
Loaded(t, l) ==
    /\ cfg' = l.cfg
    /\ tomlErr' = l.tomlErr
    /\ envErr' = l.envErr
    /\ ret' = l.st
    /\ err' = l.err
    /\ lastFile' = l.file
    /\ instance' = IF l.st = "ok" THEN [set |-> TRUE, type |-> t, rec |-> l.cfg]
                   ELSE instance

\* the error-returning entry point put behind the gate of InitConfig
InitConfigSafeGated(t, appname) ==
    /\ started' = TRUE
    /\ AppName' = appname
    /\ once' = TRUE
    /\ IF once
       THEN /\ call' = Call("safe", t, FALSE, GateWon)
            /\ UNCHANGED <<instance, cfg, tomlErr, envErr, ret, err, lastFile>>
       ELSE /\ Loaded(t, LoadConfig(t, appname, configPath, files, env))
            /\ call' = SafeCall(t)
    /\ got' = NoGot
    /\ masked' = NoSnapshot
    /\ UNCHANGED <<env, files, configPath, cacheVars, parseVars, raceVars>>

\* InitConfigSafe[T](appname)
InitConfigSafe(t, appname) ==
    /\ started' = TRUE
    /\ AppName' = appname
    /\ Loaded(t, LoadConfig(t, appname, configPath, files, env))
    /\ call' = SafeCall(t)
    /\ got' = NoGot
    /\ masked' = NoSnapshot
    /\ UNCHANGED <<env, files, configPath, once, cacheVars, parseVars, raceVars>>

\* InitConfigWithPathSafe[T](appname, path)
InitConfigWithPathSafe(t, appname, path) ==
    /\ started' = TRUE
    /\ AppName' = appname
    /\ configPath' = path
    /\ Loaded(t, LoadConfig(t, appname, path, files, env))
    /\ call' = SafeCall(t)
    /\ got' = NoGot
    /\ masked' = NoSnapshot
    /\ UNCHANGED <<env, files, once, cacheVars, parseVars, raceVars>>

Next ==
    \/ \E c \in EnvChoices : Setenv(c[1], c[2])
    \/ \E layout \in FileLayouts : WriteFiles(layout)
    \/ \E t \in ConfigTypes, a \in AppNames : InitConfigSafe(t, a)
    \/ \E t \in ConfigTypes, a \in AppNames, p \in ConfigPaths :
          InitConfigWithPathSafe(t, a, p)

Spec == Init /\ [][Next]_vars

-----------------------------------------------------------------------------
(* What the properties speak about: the scalar and list-of-scalar fields  *)
(* of AppConfig outside its list of records, each with the path to it in  *)
(* the record, the environment variable that addresses it, and its tags.  *)

Leaf(path, key, kind, elem, d, r, display) ==
    [path |-> path, key |-> key, kind |-> kind, elem |-> elem,
     Default |-> d, Required |-> r, display |-> display]

Leaves ==
    { Leaf(<<1>>, <<"A","P","P","_","H","O","S","T">>, "string", "", <<>>, TRUE, <<"H","O","S","T">>),
      Leaf(<<2>>, <<"A","P","P","_","P","O","R","T">>, "int", "", <<"8","0">>, FALSE, <<"P","O","R","T">>),
      Leaf(<<3>>, <<"A","P","P","_","E","N","A","B","L","E","D">>, "bool", "", <<"t","r","u","e">>, FALSE, <<"E","N","A","B","L","E","D">>),
      Leaf(<<4>>, <<"A","P","P","_","H","O","S","T","S">>, "slice", "string", <<>>, FALSE, <<"H","O","S","T","S">>),
      Leaf(<<5, 1>>, <<"A","P","P","_","D","A","T","A","B","A","S","E","_","U","S","E","R">>, "string", "", <<>>, TRUE, <<"U","S","E","R">>),
      Leaf(<<5, 2>>, <<"A","P","P","_","D","A","T","A","B","A","S","E","_","P","A","S","S","W","O","R","D">>, "string", "", <<>>, FALSE, <<"P","A","S","S","W","O","R","D">>),
      Leaf(<<5, 3>>, <<"A","P","P","_","D","A","T","A","B","A","S","E","_","T","L","S">>, "bool", "", <<>>, TRUE, <<"T","L","S">>),
      Leaf(<<7, 1, 1>>, <<"A","P","P","_","O","U","T","E","R","_","I","N","N","E","R","_","L","E","V","E","L">>, "int", "", <<"3">>, FALSE, <<"L","e","v","e","l">>) }

\* the path to the list of records in AppConfig, and its key
UsersPath == <<6>>
UsersKey == <<"A","P","P","_","U","S","E","R","S">>

\* the value a path leads to in a record or in a decoded tree
RECURSIVE FieldAt(_, _)
FieldAt(v, path) == IF path = <<>> THEN v ELSE FieldAt(v[Head(path)], Tail(path))

\* the list of records of a record or of a decoded tree
Users(v) == FieldAt(v, UsersPath)

\* a call of LoadConfig has returned
Returned == ret \in {"ok", "error"}

\* the file the load read decoded, and gave the leaf a value
InFile(l) == lastFile.kind = "toml" /\ FieldAt(lastFile.tree, l.path).set
FileValue(l) == FieldAt(lastFile.tree, l.path).val

\* a non-empty environment variable addresses the leaf
InEnv(l) == Getenv(env, l.key) # <<>>

\* the environment value of the leaf, converted to the leaf's type
Coerced(l) == parseEnvValue(Getenv(env, l.key), l.kind, l.elem)

\* the declared default of the leaf, converted to the leaf's type
CoercedDefault(l) == parseEnvValue(l.Default, l.kind, l.elem)

\* the zero value of the zero-value policy: false is the zero of a boolean
ZeroLeaf(l, v) == v = ZeroOfKind(l.kind)

\* C1 - Precedence: in the record LoadConfig produces, every scalar or
\* list-of-scalar field that the file gives a value and that a non-empty,
\* convertible environment variable addresses holds the converted
\* environment value, whatever the rest of the environment is.
C1_Precedence ==
    ret = "ok" =>
        \A l \in Leaves :
            (InFile(l) /\ InEnv(l) /\ Coerced(l).st = "ok")
                => FieldAt(cfg, l.path) = Coerced(l).val

\* Lemma: precedence holds whenever the environment pass ended without an
\* error, i.e. it is lost only through an error LoadConfig passes over.
PrecedenceWhenEnvPassClean ==
    (ret = "ok" /\ envErr = Nil) =>
        \A l \in Leaves :
            (InFile(l) /\ InEnv(l) /\ Coerced(l).st = "ok")
                => FieldAt(cfg, l.path) = Coerced(l).val

\* the variables that address element i of the list of records
ElemKeys(i) ==
    { UsersKey \o <<"_">> \o Itoa(i) \o suffix :
        suffix \in { <<"_","R","O","L","E">>, <<"_","N","A","M","E">>, <<"_","O","P","T","_","T","I","M","E","O","U","T">> } }

\* a non-empty environment variable addresses a field of element i (a
\* variable addresses a field when it names a scalar of it, at any depth)
AddressedElem(i) == \E k \in ElemKeys(i) : Getenv(env, k) # <<>>

\* the file the load read gave the list of records a value: that value
UsersInFile == lastFile.kind = "toml" /\ Users(lastFile.tree).set
FileUsers == Users(Unmarshal(lastFile.tree, "AppConfig", ZeroStruct("AppConfig")))

\* C2 - Preservation: a field the file gives a value and no environment
\* variable addresses holds exactly the file's value in the merged record,
\* for every value the file can give; so does a list of records none of
\* whose elements the environment addresses.
C2_Preservation ==
    ret = "ok" =>
        /\ \A l \in Leaves :
              (InFile(l) /\ l.key \notin DOMAIN env)
                  => FieldAt(cfg, l.path) = FileValue(l)
        /\ (UsersInFile /\ \A i \in 0..ProbeLimit : ~AddressedElem(i))
              => Users(cfg) = FileUsers

\* C3 - Defaulting: a scalar or list-of-scalar field, at any depth of
\* nested records, that neither the file nor the environment gives a value
\* holds its converted default when it declares one and its zero value
\* when it declares none.
C3_Defaulting ==
    ret = "ok" =>
        \A l \in Leaves :
            (~InFile(l) /\ ~InEnv(l))
                => FieldAt(cfg, l.path) =
                     IF l.Default # <<>> THEN CoercedDefault(l).val
                     ELSE ZeroOfKind(l.kind)

\* the required fields of an element of the list of records: position, tag
ElemRequired == { <<1, <<"R","O","L","E">>>>, <<2, <<"N","A","M","E">>>> }

\* the display names of the required fields that hold their zero value
RequiredZero ==
    { l.display : l \in { x \in Leaves : x.Required /\ ZeroLeaf(x, FieldAt(cfg, x.path)) } }
    \cup { r[2] : r \in { x \in ElemRequired :
                           \E k \in 1..Len(Users(cfg)) : Users(cfg)[k][x[1]] = <<>> } }

\* a source gives the leaf a non-zero value
Satisfied(l) ==
    \/ InFile(l) /\ ~ZeroLeaf(l, FileValue(l))
    \/ InEnv(l) /\ Coerced(l).st = "ok" /\ ~ZeroLeaf(l, Coerced(l).val)

\* C4 - Required enforcement: LoadConfig returns an error exactly when,
\* after both passes and the defaults, some required field holds its zero
\* value; the error names the env tag (or identifier) of such a field;
\* and, the environment pass having ended cleanly, a required field that a
\* source gave a non-zero value is never the one named.
C4_RequiredEnforcement ==
    Returned =>
        /\ (ret = "error") <=> (RequiredZero # {})
        /\ ret = "error" => (err.what = "required" /\ err.field \in RequiredZero)
        /\ \A l \in Leaves :
              (l.Required /\ Satisfied(l) /\ envErr = Nil)
                  => ~(ret = "error" /\ err.field = l.display)

\* the raw values of the environment variables that address a field and
\* cannot be converted to its type
RejectedRaw ==
    { Getenv(env, l.key) : l \in { x \in Leaves : InEnv(x) /\ Coerced(x).st = "err" } }
    \cup { Getenv(env, UsersKey \o <<"_">> \o Itoa(i) \o <<"_","O","P","T","_","T","I","M","E","O","U","T">>) :
             i \in { j \in 0..ProbeLimit :
                       LET raw == Getenv(env, UsersKey \o <<"_">> \o Itoa(j) \o <<"_","O","P","T","_","T","I","M","E","O","U","T">>)
                       IN  raw # <<>> /\ parseEnvValue(raw, "int", "").st = "err"
                           /\ \A h \in 0..j : AddressedElem(h) } }

\* C5 - A coercion error is fatal: when a non-empty environment variable
\* that addresses a field cannot be converted to the field's type,
\* LoadConfig returns an error that carries the field and the raw value,
\* and installs nothing (also when no required field is left empty).
C5_CoercionErrorFatal ==
    (Returned /\ RejectedRaw # {} /\ RequiredZero = {}) =>
        /\ ret = "error"
        /\ err.what = "parse"
        /\ err.raw \in RejectedRaw

\* C6 - A file decode error is fatal: when the configuration file exists
\* and does not decode, LoadConfig returns the decode error and installs
\* nothing, whatever the environment holds (also when it fills every
\* required field).
C6_DecodeErrorFatal ==
    (Returned /\ lastFile.kind = "corrupt" /\ RequiredZero = {}) =>
        /\ ret = "error"
        /\ err.what = "decode"

ConfigTypeKey == <<"A","P","P","_","C","O","N","F","I","G","_","T","Y","P","E">>

\* C8 - Source selection: with <APPNAME>_CONFIG_TYPE set to "env" the
\* file is skipped, so a value only the existing file holds never shows in
\* the record the load installs; with any other value, or without the
\* variable, the file pass runs and such a value does show.
C8_SourceSelection ==
    ret = "ok" =>
        \A l \in Leaves :
            (InFile(l) /\ ~InEnv(l) /\ ~ZeroLeaf(l, FileValue(l))
               /\ (l.Default = <<>> \/ FileValue(l) # CoercedDefault(l).val))
                => IF Getenv(env, ConfigTypeKey) = <<"e","n","v">>
                   THEN FieldAt(cfg, l.path) # FileValue(l)
                   ELSE FieldAt(cfg, l.path) = FileValue(l)

\* the smallest index no field of whose element a variable addresses
FirstGap ==
    CHOOSE i \in 0..(ProbeLimit + 1) :
        /\ \A h \in 0..(i - 1) : AddressedElem(h)
        /\ (i <= ProbeLimit => ~AddressedElem(i))

\* what loadStructSliceEnv makes of the environment for the list of records
BuiltUsers == loadStructSliceEnv(UsersKey, "User", env)

\* the variable of a field of element i
ElemVar(i, suffix) == Getenv(env, UsersKey \o <<"_">> \o Itoa(i) \o suffix)

C10_ListReplacement ==
    (ret = "ok" /\ UsersInFile) =>
        IF AddressedElem(0)
        THEN /\ \A k \in 1..Len(Users(cfg)) :
                   \A h \in 1..Len(FileUsers) : Users(cfg)[k] # FileUsers[h]
             /\ BuiltUsers.st = "ok" => Users(cfg) = BuiltUsers.v
        ELSE Users(cfg) = FileUsers

-----------------------------------------------------------------------------
(* The service configuration: a list of records with nested settings,      *)
(* loaded from the environment alone, then printed.                        *)

SvcApp == <<"m","y","-","a","p","p">>

SvcEnvChoices ==
    { <<<<"M","Y","_","A","P","P","_","S","E","R","V","I","C","E","S","_","0","_","N","A","M","E">>, <<"a">>>>,
      <<<<"M","Y","_","A","P","P","_","S","E","R","V","I","C","E","S","_","0","_","K","E","Y">>, <<"k">>>>,
      <<<<"M","Y","_","A","P","P","_","S","E","R","V","I","C","E","S","_","0","_","S","E","T","T","I","N","G","S","_","T","I","M","E","O","U","T">>, <<"5">>>>,
      <<<<"M","Y","_","A","P","P","_","S","E","R","V","I","C","E","S","_","0","_","S","E","T","T","I","N","G","S","_","D","E","B","U","G">>, <<"f","a","l","s","e">>>>,
      <<<<"M","Y","_","A","P","P","_","S","E","R","V","I","C","E","S","_","1","_","N","A","M","E">>, <<"b">>>>,
      <<<<"M","Y","_","A","P","P","_","T","O","K","E","N","S">>, <<"t",",","u">>>>,
      <<<<"M","Y","_","A","P","P","_","A","P","I","_","K","E","Y">>, <<"s">>>>,
      <<<<"M","Y","_","A","P","P","_","R","E","T","R","I","E","S">>, <<"3">>>>,
      <<<<"M","Y","_","A","P","P","_","L","O","G","-","F","I","L","E">>, <<"f">>>>,
      <<<<"M","Y","_","A","P","P","_","L","O","G","_","F","I","L","E">>, <<"g">>>> }

\* the mask token
Stars == <<"*","*","*","*">>

\* what maskSecrets makes of a nil interface: it is returned as it is
NullValue == "null"

\* the keys of the map when the secret fields are left out of it
MaskedNamesWithoutSecrets(fields) ==
    {fields[i].Name : i \in {k \in 1..Len(fields) : ~fields[k].Secret}}

\* the keys of the map maskSecrets fills: one per field of the struct
MaskedNames(fields) == {fields[i].Name : i \in 1..Len(fields)}

\* maskSecrets, the branch of a field that is neither a struct nor a slice
MaskedLeaf(fieldInfo, field) == IF fieldInfo.Secret THEN Stars ELSE field

\* maskSecrets: a struct becomes a map from field names, a slice a sequence,
\* anything else is returned as it is.  A struct or slice field is handed
\* to the recursion before its secret tag is looked at.
RECURSIVE maskSecrets(_, _, _, _)
maskSecrets(v, kind, elem, t) ==
    CASE kind = "struct" ->
            LET fields == getCachedTypeInfo(t).Fields
                last(n) == CHOOSE i \in 1..Len(fields) :
                               /\ fields[i].Name = n
                               /\ \A k \in i + 1..Len(fields) : fields[k].Name # n
            IN  [n \in MaskedNames(fields) |->
                    IF fields[last(n)].Kind \in {"struct", "slice"}
                    THEN maskSecrets(v[last(n)], fields[last(n)].Kind,
                                     fields[last(n)].Elem, fields[last(n)].Struct)
                    ELSE MaskedLeaf(fields[last(n)], v[last(n)])]
      [] kind = "slice" ->
            [i \in 1..Len(v) |-> maskSecrets(v[i], elem, "", t)]
      [] OTHER -> v

\* maskSecrets(instance)
maskInstance ==
    IF instance.set THEN maskSecrets(instance.rec, "struct", "", instance.type)
    ELSE NullValue

\* PrintConfig()
PrintConfig ==
    /\ masked' = [set |-> TRUE, snap |-> maskInstance]
    /\ call' = Call("print", "", FALSE, GateWon)
    /\ got' = NoGot
    /\ UNCHANGED <<env, files, started, AppName, configPath, instance, cfg,
                   tomlErr, envErr, ret, err, lastFile, once, cacheVars, parseVars, raceVars>>

NextSvc ==
    \/ \E c \in SvcEnvChoices : Setenv(c[1], c[2])
    \/ InitConfigSafe("SvcConfig", SvcApp)
    \/ PrintConfig

SpecSvc == Init /\ [][NextSvc]_vars

\* One segment of an environment key: uppercased, hyphens made underscores.
KeySegment(s) == HyphenToUnderscore(ToUpper(s))

\* The key the grammar gives a sequence of segments: joined by "_".
RECURSIVE GrammarKey(_)
GrammarKey(segs) ==
    IF Len(segs) = 1 THEN KeySegment(segs[1])
    ELSE GrammarKey(SubSeq(segs, 1, Len(segs) - 1)) \o Underscore
         \o KeySegment(segs[Len(segs)])

\* the list of services of the loaded record, and the segments before it
Services == cfg[1]
ServicesSegs == <<SvcApp, <<"S","E","R","V","I","C","E","S">>>>

\* In record v of type t, whose keys are made of the segments segs: every
\* scalar field that has a default and no variable of its own holds the
\* converted default, in the records nested in v as well.
RECURSIVE DefaultsHold(_, _, _)
DefaultsHold(v, t, segs) ==
    \A j \in 1..NumField(t) :
        LET f == StructDecls(t)[j]
            own == Append(segs, ElemTag(f))
        IN  IF f.Kind = "struct" THEN DefaultsHold(v[j], f.Struct, own)
            ELSE (/\ f.Kind # "slice"
                  /\ f.defaultTag # <<>>
                  /\ Getenv(env, GrammarKey(own)) = <<>>)
                 => v[j] = parseScalar(f.defaultTag, f.Kind).val

\* C11 - Defaults inside list elements: in every element of the list of
\* services that a successful load built from the environment, each scalar
\* field with a default and without a variable of its own holds the
\* converted default: required fields and the fields of the record nested
\* in the element included.
C11_ElementDefaults ==
    (ret = "ok" /\ instance.type = "SvcConfig") =>
        \A i \in 1..Len(Services) :
            DefaultsHold(Services[i], "Service",
                         Append(ServicesSegs, Itoa(i - 1)))

\* a snapshot of an installed record has been printed
Printed == masked.set /\ instance.set

\* In the snapshot snap of a record of type t, every field tagged secret is
\* the mask token, in the nested records and the list elements as well.
RECURSIVE SecretsMasked(_, _)
SecretsMasked(snap, t) ==
    \A j \in 1..NumField(t) :
        LET f == FieldInfoOf(StructDecls(t)[j])
        IN  IF f.Secret THEN snap[f.Name] = Stars
            ELSE CASE f.Kind = "struct" -> SecretsMasked(snap[f.Name], f.Struct)
                   [] IsStructSlice(f) ->
                        \A i \in 1..Len(snap[f.Name]) :
                            SecretsMasked(snap[f.Name][i], f.Struct)
                   [] OTHER -> TRUE

\* C12 - Secret masking: in the snapshot PrintConfig makes of the installed
\* record every field tagged secret:"true" is the token "****", whatever
\* its type, at the top level, in a nested record and in a list element.
C12_SecretMasking == Printed => SecretsMasked(masked.snap, instance.type)

\* The snapshot snap has the shape of the list v: an entry per element, in
\* order, and a list of scalars that is not tagged secret has equal entries.
RECURSIVE ShapeKept(_, _, _)
ListShapeKept(snap, v, f) ==
    /\ DOMAIN snap = DOMAIN v
    /\ \A i \in DOMAIN v :
          IF f.Elem = "struct" THEN ShapeKept(snap[i], v[i], f.Struct)
          ELSE f.Secret \/ snap[i] = v[i]

\* The snapshot snap has the shape of the record v of type t: an entry per
\* declared field under the field's name, nested records and lists with
\* the same shape, and every scalar not tagged secret equal to the
\* record's.
ShapeKept(snap, v, t) ==
    /\ DOMAIN snap = {StructDecls(t)[j].Name : j \in 1..NumField(t)}
    /\ \A j \in 1..NumField(t) :
          LET f == FieldInfoOf(StructDecls(t)[j])
          IN  CASE f.Kind = "struct" -> ShapeKept(snap[f.Name], v[j], f.Struct)
                [] f.Kind = "slice" -> ListShapeKept(snap[f.Name], v[j], f)
                [] OTHER -> f.Secret \/ snap[f.Name] = v[j]

\* a step of PrintConfig on an installed record
PrintStep == call'.op = "print" /\ instance.set

\* C13 - Masking preserves shape: a step of PrintConfig yields a snapshot
\* with the tree shape and the field names of the record (a map entry per
\* declared field, a sequence entry per list element, in order), in which
\* each leaf not tagged secret equals the record's; masking the record
\* again yields an equal snapshot; and the step leaves the record as it
\* was.
C13_MaskingPreservesShape ==
    [][PrintStep =>
          /\ ShapeKept(masked'.snap, instance.rec, instance.type)
          /\ masked'.snap = maskInstance'
          /\ instance' = instance
          /\ cfg' = cfg]_vars

\* a record with a service and a log file has been printed
C13_Witness ==
    /\ Printed
    /\ Len(Services) > 0
    /\ Services[1][1] # <<>>
    /\ masked.snap[<<"S","e","r","v","i","c","e","s">>][1][<<"N","a","m","e">>] = Services[1][1]
    /\ masked.snap[<<"S","e","r","v","i","c","e","s">>][1][<<"K","e","y">>] = Stars
    /\ instance.rec[5] # <<>>

-----------------------------------------------------------------------------
(* The entry points of a running process: the guarded initializers, the    *)
(* error-returning ones, the retrievals, and a changing environment.       *)

\* the types the process asks for: a record with required fields, and one
\* that every environment satisfies
GateTypes == {"AppConfig", "Opt"}

GateEnvChoices ==
    { <<<<"A","P","P","_","P","O","R","T">>, <<"7">>>>,
      <<<<"A","P","P","_","H","O","S","T">>, <<"e","h">>>> }

\* os.Setenv while the process runs
Putenv(key, value) ==
    /\ key \notin DOMAIN env
    /\ Cardinality(SetForRun(env)) < MaxEnvVars
    /\ env' = [k \in DOMAIN env \cup {key} |-> IF k = key THEN value ELSE env[k]]
    /\ call' = Call("env", "", FALSE, GateWon)
    /\ got' = NoGot
    /\ masked' = NoSnapshot
    /\ UNCHANGED <<files, started, AppName, configPath, instance, cfg,
                   tomlErr, envErr, ret, err, lastFile, once, cacheVars, parseVars, raceVars>>

\* once.Do(func() { err := LoadConfig[T](); if err != nil { panic(err) } }):
\* the function runs if the Once has not run one yet, and the Once counts a
\* function that panicked as run.
GuardedLoad(t, appname, path) ==
    /\ once' = TRUE
    /\ IF once
       THEN /\ call' = Call("guarded", t, FALSE, GateWon)
            /\ UNCHANGED <<instance, cfg, tomlErr, envErr, ret, err, lastFile>>
       ELSE /\ Loaded(t, LoadConfig(t, appname, path, files, env))
            /\ call' = Call("guarded", t, TRUE, GateWon)

\* InitConfig[T](appname)
InitConfig(t, appname) ==
    /\ started' = TRUE
    /\ AppName' = appname
    /\ GuardedLoad(t, appname, configPath)
    /\ got' = NoGot
    /\ masked' = NoSnapshot
    /\ UNCHANGED <<env, files, configPath, cacheVars, parseVars, raceVars>>

\* InitConfigWithPath[T](appname, path)
InitConfigWithPath(t, appname, path) ==
    /\ started' = TRUE
    /\ AppName' = appname
    /\ configPath' = path
    /\ GuardedLoad(t, appname, path)
    /\ got' = NoGot
    /\ masked' = NoSnapshot
    /\ UNCHANGED <<env, files, cacheVars, parseVars, raceVars>>

\* a retrieval that does not look at the type of the installed record
RetrievedUnchecked(t, failure) ==
    IF instance.set
    THEN [st |-> "ok", type |-> t, rec |-> instance.rec]
    ELSE [st |-> failure, type |-> t, rec |-> <<>>]

\* what a retrieval gives: the record, or the failure of its tier
Retrieved(t, failure) ==
    IF instance.set /\ instance.type = t
    THEN [st |-> "ok", type |-> t, rec |-> instance.rec]
    ELSE [st |-> failure, type |-> t, rec |-> <<>>]

\* GetConfig[T]()
GetConfig(t) ==
    /\ got' = Retrieved(t, "panic")
    /\ call' = Call("get", t, FALSE, GateWon)
    /\ masked' = NoSnapshot
    /\ UNCHANGED <<env, files, started, AppName, configPath, instance, cfg,
                   tomlErr, envErr, ret, err, lastFile, once, cacheVars, parseVars, raceVars>>

\* GetConfigSafe[T]()
GetConfigSafe(t) ==
    /\ got' = Retrieved(t, "error")
    /\ call' = Call("getsafe", t, FALSE, GateWon)
    /\ masked' = NoSnapshot
    /\ UNCHANGED <<env, files, started, AppName, configPath, instance, cfg,
                   tomlErr, envErr, ret, err, lastFile, once, cacheVars, parseVars, raceVars>>

NextGate ==
    \/ \E c \in GateEnvChoices : Putenv(c[1], c[2])
    \/ \E t \in GateTypes, a \in AppNames : InitConfig(t, a)
    \/ \E t \in GateTypes, a \in AppNames, p \in ConfigPaths :
          InitConfigWithPath(t, a, p)
    \/ \E t \in GateTypes, a \in AppNames : InitConfigSafe(t, a)
    \/ \E t \in GateTypes, a \in AppNames, p \in ConfigPaths :
          InitConfigWithPathSafe(t, a, p)
    \/ \E t \in GateTypes : GetConfig(t)
    \/ \E t \in GateTypes : GetConfigSafe(t)

SpecGate == Init /\ [][NextGate]_vars

\* the last call was a guarded initializer
Guarded == call.op = "guarded"

\* C14 - One-time gate: a guarded call (InitConfig, InitConfigWithPath)
\* performs a load exactly when no guarded load has succeeded before it: a
\* guarded load that failed leaves the gate open for the next guarded
\* call, and after a guarded load that succeeded no guarded call loads
\* again.
C14_OneTimeGate == Guarded => (call.loaded <=> ~call.won)
\* the last call was InitConfigSafe or InitConfigWithPathSafe
SafeCalled == call.op = "safe"

\* what LoadConfig makes of the files and the environment as they are now
FreshLoad == LoadConfig(call.type, AppName, configPath, files, env)

\* C15 - Explicit reload: a call of InitConfigSafe or InitConfigWithPathSafe
\* runs the whole cycle (file, environment, validation) on the files and
\* the environment as they are at the call, whatever was called before and
\* whatever the state of the gate; when it succeeds the singleton is the
\* record it built.
C15_ExplicitReload ==
    SafeCalled =>
        LET l == FreshLoad
        IN  /\ call.loaded
            /\ cfg = l.cfg
            /\ ret = l.st
            /\ err = l.err
            /\ ret = "ok" =>
                  instance = [set |-> TRUE, type |-> call.type, rec |-> l.cfg]

\* an error-returning call that came after a successful guarded load and
\* installed a record with the port the environment now gives
C15_Witness ==
    /\ SafeCalled
    /\ call.won
    /\ once
    /\ ret = "ok"
    /\ call.type = "AppConfig"
    /\ Getenv(env, <<"A","P","P","_","P","O","R","T">>) = <<"7">>
    /\ instance.rec[2] = 7

\* the last call was a retrieval
Retrieval == call.op \in {"get", "getsafe"}

\* the failure of the tier of the last retrieval
TierFailure == IF call.op = "get" THEN "panic" ELSE "error"

\* C16 - Retrieval errors: GetConfigSafe[T] returns an error, and
\* GetConfig[T] panics, exactly when no load has succeeded so far or the
\* most recent successful load was of another type; otherwise both give
\* the record the most recent successful load installed.
C16_RetrievalErrors ==
    Retrieval =>
        /\ got.st \in {"ok", TierFailure}
        /\ got.st # "ok" <=> (~instance.set \/ instance.type # call.type)
        /\ got.st = "ok" => got.rec = instance.rec

\* a retrieval of one type failed while a record of the other is installed
C16_Witness ==
    /\ Retrieval
    /\ instance.set
    /\ instance.type = "AppConfig"
    /\ call.type = "Opt"
    /\ got.st = TierFailure
\* C17 - The error-returning tier never panics: whatever the environment,
\* a call of InitConfigSafe or InitConfigWithPathSafe for a record type
\* built from the supported kinds (a 64-bit integer among them) ends by
\* returning: with nil or with an error, never with a panic.
C17_SafeTierNeverPanics == SafeCalled => ret \in {"ok", "error"}
\* In record v of type t, whose keys are made of the segments segs: every
\* scalar or list-of-scalars field whose key, built by the grammar, names a
\* non-empty variable holds the converted value of that variable; so do
\* the fields of the nested records and of the elements of the lists of
\* records, whose segments are the list's followed by the element's index.
RECURSIVE ReadsGrammarKeys(_, _, _)
ReadsGrammarKeys(v, t, segs) ==
    \A j \in 1..NumField(t) :
        LET f == StructDecls(t)[j]
            own == Append(segs, ElemTag(f))
        IN  CASE f.Kind = "struct" -> ReadsGrammarKeys(v[j], f.Struct, own)
              [] IsStructSlice(f) ->
                    \A i \in 1..Len(v[j]) :
                        ReadsGrammarKeys(v[j][i], f.Struct, Append(own, Itoa(i - 1)))
              [] OTHER ->
                    Getenv(env, GrammarKey(own)) # <<>> =>
                        v[j] = parseEnvValue(Getenv(env, GrammarKey(own)),
                                             f.Kind, f.Elem).val

\* C19 - Environment key grammar: the variable a field is read from is
\* named by the application name, the tag or name of each enclosing
\* section, for a list element the list's tag or name and the element's
\* decimal index, and the field's own tag or name, joined by "_", each
\* segment uppercased and each hyphen in it (the field's own tag
\* included) replaced by an underscore: after a successful load each field
\* holds the converted value of the variable of that name.
C19_EnvKeyGrammar ==
    (ret = "ok" /\ instance.type = "SvcConfig") =>
        ReadsGrammarKeys(cfg, "SvcConfig", <<SvcApp>>)

\* C20 - Zero-value policy: the zero test calls a value zero exactly when it
\* is the empty string, the 0 of an integer or float kind, the boolean
\* false or the empty list: on every scalar or list-of-scalars field of
\* the record a load has built, isZero answers whether the field holds the
\* zero value of its kind.
C20_ZeroValuePolicy ==
    Returned =>
        \A l \in Leaves :
            isZero(l.kind, FieldAt(cfg, l.path)) <=> ZeroLeaf(l, FieldAt(cfg, l.path))
-----------------------------------------------------------------------------
(* The schema cache under concurrent callers.  A TypeInfo instance is      *)
(* named by its type and the rank of its construction.                     *)

CacheTypes == {"AppConfig", "Database"}

nonCacheVars ==
    <<env, files, started, AppName, configPath, instance, cfg, tomlErr,
      envErr, ret, err, lastFile, once, call, got, masked, input, output,
      racers>>

\* a goroutine calls getCachedTypeInfo(t)
CallGetCachedTypeInfo(t) ==
    /\ Len(caller) < MaxCallers
    /\ caller' = Append(caller, [pc |-> "load", t |-> t, info |-> 0])
    /\ UNCHANGED <<typeCacheMap, computed, nonCacheVars>>

\* if cached, ok := typeCache.Load(t); ok { return cached.(*TypeInfo) }
CacheLoad(g) ==
    /\ caller[g].pc = "load"
    /\ caller' = [caller EXCEPT ![g] =
          IF caller[g].t \in DOMAIN typeCacheMap
          THEN [pc |-> "done", t |-> caller[g].t, info |-> typeCacheMap[caller[g].t]]
          ELSE [pc |-> "build", t |-> caller[g].t, info |-> 0]]
    /\ UNCHANGED <<typeCacheMap, computed, nonCacheVars>>

\* the TypeInfo instances built so far for a type
Built(t) == IF t \in DOMAIN computed THEN computed[t] ELSE 0

\* typeInfo := &TypeInfo{...}; for ... { typeInfo.Fields = append(...) }
CacheBuild(g) ==
    /\ caller[g].pc = "build"
    /\ computed' = [u \in DOMAIN computed \cup {caller[g].t} |->
                       IF u = caller[g].t THEN Built(u) + 1 ELSE computed[u]]
    /\ caller' = [caller EXCEPT ![g] =
          [pc |-> "store", t |-> caller[g].t, info |-> Built(caller[g].t) + 1]]
    /\ UNCHANGED <<typeCacheMap, nonCacheVars>>

\* typeCache.Store(t, typeInfo); return typeInfo
CacheStore(g) ==
    /\ caller[g].pc = "store"
    /\ typeCacheMap' = [u \in DOMAIN typeCacheMap \cup {caller[g].t} |->
                           IF u = caller[g].t THEN caller[g].info
                           ELSE typeCacheMap[u]]
    /\ caller' = [caller EXCEPT ![g] =
          [pc |-> "done", t |-> caller[g].t, info |-> caller[g].info]]
    /\ UNCHANGED <<computed, nonCacheVars>>

NextCache ==
    \/ \E t \in CacheTypes : CallGetCachedTypeInfo(t)
    \/ \E g \in DOMAIN caller : CacheLoad(g)
    \/ \E g \in DOMAIN caller : CacheBuild(g)
    \/ \E g \in DOMAIN caller : CacheStore(g)

SpecCache == Init /\ [][NextCache]_vars

\* C18 - Schema cache under concurrency: under every interleaving of the
\* concurrent calls of getCachedTypeInfo, the schema of a type is computed
\* at most once, and the callers that have returned for the same type hold
\* the same TypeInfo instance.
C18_SchemaCacheOnce ==
    /\ \A t \in DOMAIN computed : computed[t] <= 1
    /\ \A g, h \in DOMAIN caller :
          (/\ caller[g].pc = "done"
           /\ caller[h].pc = "done"
           /\ caller[g].t = caller[h].t) => caller[g].info = caller[h].info
-----------------------------------------------------------------------------
(* The validator's walk.                                                   *)

\* The display name of the first required field, in depth-first declaration
\* order, that holds the zero value of its kind; the empty name if none.
RECURSIVE FirstZeroFrom(_, _, _)
RECURSIVE FirstZeroInElems(_, _, _)

FirstOf(found, rest) == IF found # <<>> THEN found ELSE rest

FirstZeroField(value, f) ==
    IF f.Kind = "struct" THEN FirstZeroFrom(value, f.Struct, 1)
    ELSE IF IsStructSlice(f) THEN FirstZeroInElems(value, f.Struct, 1)
    ELSE IF f.Required /\ value = ZeroOfKind(f.Kind) THEN DisplayName(f)
    ELSE <<>>

FirstZeroInElems(s, t, j) ==
    IF j > Len(s) THEN <<>>
    ELSE FirstOf(FirstZeroFrom(s[j], t, 1), FirstZeroInElems(s, t, j + 1))

FirstZeroFrom(v, t, i) ==
    IF i > NumField(t) THEN <<>>
    ELSE FirstOf(FirstZeroField(v[i], FieldInfoOf(StructDecls(t)[i])),
                 FirstZeroFrom(v, t, i + 1))

\* C21 - Validator traversal: checkRequiredField walks the merged record
\* depth-first in declaration order, into every nested record and every
\* element of every list of records: when LoadConfig returns an error
\* because required fields hold zero values, the error names the first of
\* them in that order.
C21_ValidatorTraversal ==
    (Returned /\ ret = "error") =>
        (err.what = "required" /\ err.field = FirstZeroFrom(cfg, "AppConfig", 1))

-----------------------------------------------------------------------------
(* The process-wide state across the entry points.                         *)

\* a step of InitConfig or InitConfigWithPath that found the gate consumed
GuardedNoOp == call'.op = "guarded" /\ ~call'.loaded

\* C22 - Guarded no-op leaves state unchanged: a call of InitConfig or
\* InitConfigWithPath made after the gate has been consumed leaves the
\* singleton, the application name and the base path of later loads as
\* they were before the call.
C22_GuardedNoOpFrame ==
    [][GuardedNoOp =>
          /\ instance' = instance
          /\ AppName' = AppName
          /\ configPath' = configPath]_vars
-----------------------------------------------------------------------------
(* The converter on its own: parseEnvValue called with a raw string and a  *)
(* target type.                                                            *)

\* the characters of the raw strings: a letter, a digit, the separator and
\* a blank
RawAlphabet == {"t", "1", ",", " "}

\* spellings of the boolean literals in several letter cases
RawWords == {<<"t","r","u","e">>, <<"T","R","U","E">>, <<"T","r","u","e">>, <<"t","R","u","e">>, <<"f","a","l","s","e">>, <<"F","A","L","S","E">>, <<"f","A","l","s","e">>}

RawStrings == RawWords \cup UNION { [1..n -> RawAlphabet] : n \in 0..MaxRawLen }

\* the target types: scalars and lists of scalars
ParseTargets ==
    { <<"string", "">>, <<"int", "">>, <<"bool", "">>,
      <<"slice", "string">>, <<"slice", "int">>, <<"slice", "bool">> }

nonParseVars ==
    <<env, files, started, AppName, configPath, instance, cfg, tomlErr,
      envErr, ret, err, lastFile, once, call, got, masked,
      typeCacheMap, caller, computed, racers>>

\* parseEnvValue(envValue, targetType) is called
CallParseEnvValue(raw, kind, elem) ==
    /\ input.kind = ""
    /\ input' = [raw |-> raw, kind |-> kind, elem |-> elem]
    /\ UNCHANGED <<output, nonParseVars>>

\* parseEnvValue returns
ReturnParseEnvValue ==
    /\ input.kind # ""
    /\ output.st = "none"
    /\ output' = parseEnvValue(input.raw, input.kind, input.elem)
    /\ UNCHANGED <<input, nonParseVars>>

NextParse ==
    \/ \E raw \in RawStrings, target \in ParseTargets :
          CallParseEnvValue(raw, target[1], target[2])
    \/ ReturnParseEnvValue

SpecParse == Init /\ [][NextParse]_vars

\* the call has returned
Converted == output.st # "none"

\* a string of decimal digits, and the number it writes in base 10
IsDecimal(s) == s # <<>> /\ \A i \in 1..Len(s) : s[i] \in {DigitChars[k] : k \in 1..10}

RECURSIVE Base10(_)
Base10(s) ==
    IF s = <<>> THEN 0
    ELSE 10 * Base10(SubSeq(s, 1, Len(s) - 1))
         + (CHOOSE d \in 0..9 : DigitChars[d + 1] = s[Len(s)])

\* the spellings of the two boolean literals, whatever the case of the letters
SpellsTrue(s) == ToLower(s) = <<"t","r","u","e">>
SpellsFalse(s) == ToLower(s) = <<"f","a","l","s","e">>

\* strings that are no boolean literal in any reading: neither a spelling
\* of true or false nor one of their one-character short forms
NoBoolLiteral(s) == ToLower(s) \notin {<<"t","r","u","e">>, <<"f","a","l","s","e">>, <<"t">>, <<"f">>, <<"1">>, <<"0">>}

\* C23 - Scalar coercion: for a non-empty raw string parseEnvValue returns
\* the string itself for a string target, the base-10 value for an integer
\* target, and true or false for a boolean target given "true" or "false"
\* in any combination of letter case; a raw string that is no literal of
\* the target kind yields an error and no value; the empty raw string
\* yields the zero value of the target without an error.
C23_ScalarCoercion ==
    (Converted /\ input.kind # "slice") =>
        IF input.raw = <<>>
        THEN output.st = "ok" /\ output.val = ZeroOfKind(input.kind)
        ELSE CASE input.kind = "string" ->
                    output.st = "ok" /\ output.val = input.raw
               [] input.kind = "int" ->
                    IF IsDecimal(input.raw)
                    THEN output.st = "ok" /\ output.val = Base10(input.raw)
                    ELSE output.st = "err" /\ output.val = <<>>
               [] input.kind = "bool" ->
                    /\ SpellsTrue(input.raw) => (output.st = "ok" /\ output.val = TRUE)
                    /\ SpellsFalse(input.raw) => (output.st = "ok" /\ output.val = FALSE)
                    /\ NoBoolLiteral(input.raw) => (output.st = "err" /\ output.val = <<>>)

\* the places where the raw string is cut: before it, at each comma, after it
Cuts(s) == {0, Len(s) + 1} \cup {i \in 1..Len(s) : s[i] = ","}

\* the k-th cut from the left
NthCut(s, k) == CHOOSE c \in Cuts(s) : Cardinality({d \in Cuts(s) : d < c}) = k - 1

\* the pieces between the cuts, in input order
Pieces(s) ==
    [k \in 1..(Cardinality(Cuts(s)) - 1) |->
        SubSeq(s, NthCut(s, k) + 1, NthCut(s, k + 1) - 1)]

\* a piece without its surrounding whitespace
Inner(p) ==
    LET solid == {i \in 1..Len(p) : ~IsSpace(p[i])}
    IN  IF solid = {} THEN <<>>
        ELSE SubSeq(p, CHOOSE i \in solid : \A k \in solid : i <= k,
                       CHOOSE j \in solid : \A k \in solid : k <= j)

NonEmpty(p) == p # <<>>

\* the trimmed pieces that are not empty, in input order
KeptPieces(s) == SelectSeq([k \in DOMAIN Pieces(s) |-> Inner(Pieces(s)[k])], NonEmpty)

\* C24 - List coercion: parseSliceValue splits the raw string on commas,
\* trims each piece, drops the pieces that are empty after trimming,
\* coerces each remaining piece to the element type and returns them in
\* input order; an input whose pieces are all empty yields the empty list
\* and no error; a piece that does not coerce makes the call return an
\* error and no partial list.
C24_ListCoercion ==
    (Converted /\ input.kind = "slice") =>
        LET kept == KeptPieces(input.raw)
            bad == {k \in DOMAIN kept : parseScalar(kept[k], input.elem).st # "ok"}
        IN  IF bad = {}
            THEN /\ output.st = "ok"
                 /\ output.val = [k \in DOMAIN kept |-> parseScalar(kept[k], input.elem).val]
            ELSE output.st = "err" /\ output.val = <<>>

\* a list of two came out of a raw string with a blank in it
C24_Witness ==
    /\ Converted
    /\ input.kind = "slice"
    /\ output.st = "ok"
    /\ Len(output.val) = 2
    /\ \E i \in 1..Len(input.raw) : input.raw[i] = " "
\* a step in which LoadConfig ran and returned an error
FailedLoad == call'.loaded /\ ret' = "error"

\* C25 - A failed load leaves the singleton untouched: whenever LoadConfig,
\* through any entry point, returns an error, the instance is what it was
\* before the call, and the instance is never a record that fails
\* validation.
C25_FailedLoadKeepsInstance ==
    [][/\ FailedLoad => instance' = instance
       /\ instance'.set =>
             checkRequiredField(instance'.rec, instance'.type) = Nil]_vars

\* a load has failed while a record of an earlier load is installed
C25_Witness ==
    /\ call.loaded
    /\ ret = "error"
    /\ call.type = "AppConfig"
    /\ instance.set
    /\ instance.type = "Opt"

-----------------------------------------------------------------------------
(* The base path across loads.                                             *)

\* the file the default search finds: the working directory first, then the
\* directory of the executable
DefaultSearch ==
    IF FileIn(files, WorkDir).kind # "absent"
    THEN FileIn(files, WorkDir)
    ELSE FileIn(files, Dir(ExePath))

\* C26 - The base path is sticky: once a non-empty base path is stored,
\* every later load, through any entry point, looks for the file only in the
\* parent directory of a stored non-empty path and never uses the default
\* search again.
C26_StickyBasePath ==
    [][(configPath # <<>> /\ call'.loaded) =>
            /\ configPath' # <<>>
            /\ lastFile' = FileIn(files, Dir(configPath'))]_vars

\* C26, amended - Every load looks where the base path stored at that moment
\* says: only in its parent directory when it is non-empty, by the default
\* search when it is empty; the entry points without a path argument leave
\* the stored path as it is, the ones with a path argument overwrite it,
\* an empty path included.
C26_BasePathAsStored ==
    call.loaded =>
        lastFile = IF configPath # <<>>
                   THEN FileIn(files, Dir(configPath))
                   ELSE DefaultSearch

\* a load with a stored base path passed by a file the default search would
\* have found
C26_Witness ==
    /\ call.loaded
    /\ configPath = CustomPath
    /\ lastFile = FileIn(files, Dir(CustomPath))
    /\ DefaultSearch.kind # "absent"
    /\ lastFile # DefaultSearch

-----------------------------------------------------------------------------
(* Variables set to the empty string.                                      *)

\* variable name, value: variables set to the empty string, and the
\* variables of list elements next to them
EmptyEnvChoices ==
    { <<<<"A","P","P","_","H","O","S","T">>, <<>>>>,
      <<<<"A","P","P","_","P","O","R","T">>, <<>>>>,
      <<<<"A","P","P","_","D","A","T","A","B","A","S","E","_","U","S","E","R">>, <<>>>>,
      <<<<"A","P","P","_","U","S","E","R","S","_","0","_","N","A","M","E">>, <<>>>>,
      <<<<"A","P","P","_","U","S","E","R","S","_","0","_","N","A","M","E">>, <<"n","0">>>>,
      <<<<"A","P","P","_","U","S","E","R","S","_","1","_","N","A","M","E">>, <<"n","1">>>>,
      <<<<"A","P","P","_","U","S","E","R","S","_","0","_","O","P","T","_","T","I","M","E","O","U","T">>, <<>>>> }

NextEmpty ==
    \/ \E c \in EmptyEnvChoices : Setenv(c[1], c[2])
    \/ \E layout \in FileLayouts : WriteFiles(layout)
    \/ \E t \in ConfigTypes, a \in AppNames : InitConfigSafe(t, a)

SpecEmpty == Init /\ [][NextEmpty]_vars

\* the environment without the variables set to the empty string
Unset(e) == [k \in {x \in DOMAIN e : e[x] # <<>>} |-> e[k]]

\* the load ended as the load l did
SameOutcome(l) ==
    /\ cfg = l.cfg
    /\ ret = l.st
    /\ err = l.err
    /\ envErr = l.envErr
    /\ tomlErr = l.tomlErr

\* C27 - A variable set to the empty string is treated like an unset one:
\* every load ends exactly as it would have ended (record, result, errors)
\* with those variables removed from the environment, so such a variable
\* overrides no file value, prevents no default, is no environment activity
\* for a nested record and no observed key for a list index.
C27_EmptyIsUnset ==
    call.loaded =>
        SameOutcome(LoadConfig(call.type, AppName, configPath, files, Unset(env)))

\* a load went through with the port set to the empty string: the record
\* has the port's default
C27_Witness ==
    /\ call.loaded
    /\ ret = "ok"
    /\ <<"A","P","P","_","P","O","R","T">> \in DOMAIN env
    /\ env[<<"A","P","P","_","P","O","R","T">>] = <<>>
    /\ cfg[2] = 80

-----------------------------------------------------------------------------
(* The environment pass that ends with an error.                           *)

\* variable name, value: values no conversion accepts, a list element
\* without its required name, and variables of the fields before and after
FailingEnvChoices ==
    { <<<<"A","P","P","_","H","O","S","T">>, <<"e","h">>>>,
      <<<<"A","P","P","_","P","O","R","T">>, <<"a","b","c">>>>,
      <<<<"A","P","P","_","E","N","A","B","L","E","D">>, <<"F","a","l","s","e">>>>,
      <<<<"A","P","P","_","U","S","E","R","S","_","0","_","N","A","M","E">>, <<"n","0">>>>,
      <<<<"A","P","P","_","U","S","E","R","S","_","0","_","R","O","L","E">>, <<"r","0">>>>,
      <<<<"A","P","P","_","U","S","E","R","S","_","0","_","O","P","T","_","T","I","M","E","O","U","T">>, <<"z","z">>>>,
      <<<<"A","P","P","_","O","U","T","E","R","_","I","N","N","E","R","_","L","E","V","E","L">>, <<"5">>>> }

NextPartial ==
    \/ \E c \in FailingEnvChoices : Setenv(c[1], c[2])
    \/ \E layout \in FileLayouts : WriteFiles(layout)
    \/ \E t \in ConfigTypes, a \in AppNames : InitConfigSafe(t, a)

SpecPartial == Init /\ [][NextPartial]_vars

\* the record as the file pass left it
FileRecord == loadConfigFile(ZeroStruct("AppConfig"), "AppConfig", files, configPath).cfg

\* the environment pass of the last load ended with an error
EnvPassFailed == call.loaded /\ Returned /\ envErr # Nil

\* key is the variable of the field at base, or of a field below it
Addresses(base, key) ==
    /\ Len(base) <= Len(key)
    /\ SubSeq(key, 1, Len(base)) = base
    /\ Len(base) < Len(key) => key[Len(base) + 1] = "_"

\* the environment without the variables of the fields of AppConfig after
\* position i
EnvUpTo(i) ==
    [k \in {x \in DOMAIN env :
              \E j \in 1..i :
                  Addresses(EnvKeyBase(AppName, getCachedTypeInfo("AppConfig").Fields[j]), x)}
        |-> env[k]]

\* the pass over that environment
PassUpTo(i) == loadConfigEnv(FileRecord, "AppConfig", AppName, EnvUpTo(i))

\* the position, in declaration order, of the field of AppConfig at or
\* below which the pass stopped
FailIndex ==
    CHOOSE i \in 1..NumField("AppConfig") :
        PassUpTo(i).st = "err" /\ PassUpTo(i - 1).st # "err"

\* the fields before position i are those of record a, the fields from
\* position i on those of record b
SplitAt(i, a, b) ==
    \A j \in 1..NumField("AppConfig") : cfg[j] = IF j < i THEN a[j] ELSE b[j]

-----------------------------------------------------------------------------
(* Concurrent guarded initializers.  InitConfig and InitConfigWithPath     *)
(* assign the package variables AppName and configPath before they reach   *)
(* once.Do; the load inside once.Do reads the variables, not the arguments. *)

\* the application names the goroutines pass; the inherited environment
\* serves the first
RaceNames == {<<"a","p","p">>, <<"w","e","b">>}

nonRaceVars ==
    <<env, files, instance, cfg, tomlErr, envErr, ret, err, lastFile, once,
      call, got, masked, cacheVars, parseVars>>

\* A goroutine inside a guarded initializer: the entry point and its
\* arguments, the statement it is at, and, once it has run LoadConfig, what
\* loadConfigFile and loadConfigEnv read from the package variables.
Racer(op, t, appname, path, pc, fileApp, filePath, envApp) ==
    [op |-> op, t |-> t, appname |-> appname, path |-> path, pc |-> pc,
     fileApp |-> fileApp, filePath |-> filePath, envApp |-> envApp]

At(r, pc) == [r EXCEPT !.pc = pc]

\* a goroutine calls InitConfig[T](appname) or InitConfigWithPath[T](appname, path)
CallGuarded(op, t, appname, path) ==
    /\ Len(racers) < MaxRacers
    /\ racers' = Append(racers, Racer(op, t, appname, path, "name", <<>>, <<>>, <<>>))
    /\ started' = TRUE
    /\ UNCHANGED <<AppName, configPath, nonRaceVars>>

\* AppName = appname
AssignAppName(g) ==
    /\ racers[g].pc = "name"
    /\ AppName' = racers[g].appname
    /\ racers' = [racers EXCEPT ![g] =
          At(@, IF @.op = "InitConfigWithPath" THEN "path" ELSE "once")]
    /\ UNCHANGED <<started, configPath, nonRaceVars>>

\* configPath = path
AssignConfigPath(g) ==
    /\ racers[g].pc = "path"
    /\ configPath' = racers[g].path
    /\ racers' = [racers EXCEPT ![g] = At(@, "once")]
    /\ UNCHANGED <<started, AppName, nonRaceVars>>

\* a goroutine is inside the function of once.Do
InsideOnce == \E h \in DOMAIN racers : racers[h].pc = "env"

\* once.Do, when the function has been run: the call returns
ReturnFromOnce(g) ==
    /\ racers[g].pc = "once"
    /\ ~InsideOnce
    /\ once
    /\ racers' = [racers EXCEPT ![g] = At(@, "done")]
    /\ call' = Call("guarded", racers[g].t, FALSE, GateWon)
    /\ got' = NoGot
    /\ masked' = NoSnapshot
    /\ UNCHANGED <<env, files, started, AppName, configPath, instance, cfg,
                   tomlErr, envErr, ret, err, lastFile, once, cacheVars, parseVars>>

\* once.Do, when the function has not been run: LoadConfig starts, and
\* loadConfigFile reads configPath and AppName
EnterOnce(g) ==
    /\ racers[g].pc = "once"
    /\ ~InsideOnce
    /\ ~once
    /\ racers' = [racers EXCEPT ![g] =
          Racer(@.op, @.t, @.appname, @.path, "env", AppName, configPath, <<>>)]
    /\ UNCHANGED <<started, AppName, configPath, nonRaceVars>>

\* LoadConfig goes on: loadConfigEnv reads AppName, the record is validated
\* and installed, and once.Do returns or panics
FinishOnce(g) ==
    /\ racers[g].pc = "env"
    /\ Loaded(racers[g].t,
              LoadOverFile(loadConfigFile(ZeroStruct(racers[g].t), racers[g].t,
                                          files, racers[g].filePath),
                           racers[g].t, AppName, env))
    /\ once' = TRUE
    /\ racers' = [racers EXCEPT ![g] =
          Racer(@.op, @.t, @.appname, @.path, "done", @.fileApp, @.filePath, AppName)]
    /\ call' = Call("guarded", racers[g].t, TRUE, GateWon)
    /\ got' = NoGot
    /\ masked' = NoSnapshot
    /\ UNCHANGED <<env, files, started, AppName, configPath, cacheVars, parseVars>>

NextRace ==
    \/ \E t \in ConfigTypes, a \in RaceNames :
          CallGuarded("InitConfig", t, a, <<>>)
    \/ \E t \in ConfigTypes, a \in RaceNames, p \in ConfigPaths :
          CallGuarded("InitConfigWithPath", t, a, p)
    \/ \E g \in DOMAIN racers : AssignAppName(g)
    \/ \E g \in DOMAIN racers : AssignConfigPath(g)
    \/ \E g \in DOMAIN racers : ReturnFromOnce(g)
    \/ \E g \in DOMAIN racers : EnterOnce(g)
    \/ \E g \in DOMAIN racers : FinishOnce(g)

SpecRace == Init /\ [][NextRace]_vars

\* the goroutine has run the load inside once.Do
RanLoad(g) == racers[g].pc = "done" /\ racers[g].envApp # <<>>

\* C29 - Under every interleaving of concurrent guarded init calls that pass
\* different application names or base paths, the load inside the gate reads
\* the file and the environment keys of the application name and the base
\* path passed by the call that executes it.
C29_LoadReadsOwnArguments ==
    \A g \in DOMAIN racers :
        RanLoad(g) =>
            /\ racers[g].fileApp = racers[g].appname
            /\ racers[g].envApp = racers[g].appname
            /\ racers[g].op = "InitConfigWithPath" =>
                  racers[g].filePath = racers[g].path

-----------------------------------------------------------------------------
(* Records that differ in their secrets.                                   *)

\* other values for the secret-tagged fields of SvcConfig: the list Tokens,
\* the strings ApiKey and Service.Key
OtherTokens == {<<>>, <<<<"x">>>>}
OtherKeys == {<<>>, <<"z","z">>}

\* the records of type SvcConfig that differ from rec in secret-tagged
\* fields only
SecretVariants(rec) ==
    { [rec EXCEPT ![1] = [i \in 1..Len(rec[1]) |-> [rec[1][i] EXCEPT ![2] = k]],
                  ![2] = tk,
                  ![3] = ak] :
        k \in OtherKeys, tk \in OtherTokens \cup {rec[2]}, ak \in OtherKeys \cup {rec[3]} }

\* C30 - Masking non-interference: a record that differs from the installed
\* record only in the values of secret-tagged fields has the same snapshot,
\* so the snapshot PrintConfig prints tells nothing about a secret value,
\* not even whether it is empty.
C30_MaskingNonInterference ==
    Printed =>
        \A r \in SecretVariants(instance.rec) :
            maskSecrets(r, "struct", "", instance.type) = masked.snap

====
